---- MODULE Spec2Model ----
(***************************************************************************)
(* L3 order book estimator: the reconstruction engine (OrderQueue,         *)
(* L3OrderBook) and its synchronisation with the exchange feed             *)
(* (AppState, switchSymbol, runBinanceSync, connectAndSync, wsHandler).    *)
(*                                                                         *)
(* Wire strings are sequences of one-character strings, so that parsing    *)
(* is computed and two different strings may denote the same decimal.      *)
(* A decimal.Decimal is an integer number of units of 10^-FracDigits.      *)
(***************************************************************************)
EXTENDS Integers, Sequences, FiniteSets, TLC

\* ------------------------------------------------------------------ bounds
\* fractional digits kept by the model's decimals
FracDigits == 1
\* largest update id the feed hands out
MaxID == 1

\* ------------------------------------------------------------ wire strings
S_0 == <<"0">>
S_0p5 == <<"0", ".", "5">>
S_1 == <<"1">>
S_2 == <<"2">>
S_3 == <<"3">>
S_4 == <<"4">>
S_4p5 == <<"4", ".", "5">>
S_5 == <<"5">>
S_neg1 == <<"-", "1">>
S_bad == <<"x">>
S_9 == <<"9">>
S_10 == <<"1", "0">>
S_10p0 == <<"1", "0", ".", "0">>

DigitChars == <<"0", "1", "2", "3", "4", "5", "6", "7", "8", "9">>
DigitSet == {DigitChars[i] : i \in 1..Len(DigitChars)}
DigitVal(c) == (CHOOSE i \in 1..Len(DigitChars) : DigitChars[i] = c) - 1

RECURSIVE Pow10(_)
Pow10(n) == IF n = 0 THEN 1 ELSE 10 * Pow10(n - 1)

RECURSIVE DigitsValue(_)
DigitsValue(ds) ==
    IF Len(ds) = 0 THEN 0
    ELSE 10 * DigitsValue(SubSeq(ds, 1, Len(ds) - 1)) + DigitVal(ds[Len(ds)])

\* decimal.NewFromString: optional sign, digits with at most one point, at
\* least one digit; anything else is an error.  The result is exact.
NewFromString(s) ==
    LET signed == Len(s) > 0 /\ s[1] \in {"-", "+"}
        body == IF signed THEN Tail(s) ELSE s
        dots == {i \in 1..Len(body) : body[i] = "."}
        digits == SelectSeq(body, LAMBDA c : c \in DigitSet)
        wellFormed == /\ \A i \in 1..Len(body) : body[i] \in DigitSet \cup {"."}
                      /\ Cardinality(dots) <= 1
                      /\ Len(digits) >= 1
        fracLen == IF dots = {} THEN 0 ELSE Len(body) - (CHOOSE i \in dots : TRUE)
        mag == (DigitsValue(digits) * Pow10(FracDigits)) \div Pow10(fracLen)
    IN  IF wellFormed
        THEN [err |-> FALSE, val |-> IF signed /\ s[1] = "-" THEN 0 - mag ELSE mag]
        ELSE [err |-> TRUE, val |-> 0]

\* ------------------------------------------------------------- OrderQueue
RECURSIVE SeqSum(_)
SeqSum(q) == IF Len(q) = 0 THEN 0 ELSE q[1] + SeqSum(Tail(q))

\* OrderQueue.sum
sum(q) == SeqSum(q)

\* OrderQueue.isEmpty
isEmpty(q) == Len(q) = 0

RemoveAt(q, i) == SubSeq(q, 1, i - 1) \o SubSeq(q, i + 1, Len(q))

\* a scan that lets a later equal entry replace the maximum
largestOrderIndexLast(q) ==
    IF Len(q) = 0 THEN 0
    ELSE CHOOSE i \in 1..Len(q) :
            /\ \A j \in 1..Len(q) : q[j] <= q[i]
            /\ \A j \in (i + 1)..Len(q) : q[j] < q[i]

\* OrderQueue.largestOrderIndex, 1-based; 0 stands for the code's -1.
\* A later entry replaces the maximum only when strictly greater.
largestOrderIndex(q) ==
    IF Len(q) = 0 THEN 0
    ELSE CHOOSE i \in 1..Len(q) :
            /\ \A j \in 1..Len(q) : q[j] <= q[i]
            /\ \A j \in 1..(i - 1) : q[j] < q[i]

\* a front-to-back scan for the exact match
exactMatchIndexFront(q, diff) ==
    LET hits == {i \in 1..Len(q) : q[i] = diff}
    IN  IF hits = {} THEN 0 ELSE CHOOSE i \in hits : \A j \in hits : i <= j

\* the back-to-front scan of updateQueue: the index of the entry removed as
\* an exact match of diff, 0 when there is none
exactMatchIndex(q, diff) ==
    LET hits == {i \in 1..Len(q) : q[i] = diff}
    IN  IF hits = {} THEN 0 ELSE CHOOSE i \in hits : \A j \in hits : j <= i

\* a reduction that always subtracts from the largest order and never removes it
reduceQueueNoRemove(q, newQty) ==
    LET oldSum == sum(q) IN
    IF newQty > oldSum THEN Append(q, newQty - oldSum)
    ELSE IF newQty < oldSum THEN
        LET diff == oldSum - newQty
            m == exactMatchIndex(q, diff)
            largestIdx == largestOrderIndex(q)
        IN  IF m > 0 THEN RemoveAt(q, m)
            ELSE IF largestIdx > 0
                 THEN [q EXCEPT ![largestIdx] = q[largestIdx] - diff]
                 ELSE q
    ELSE q

\* a reduction that puts an added order at the front of the queue
reduceQueuePrepend(q, newQty) ==
    LET oldSum == sum(q) IN
    IF newQty > oldSum THEN <<newQty - oldSum>> \o q
    ELSE IF newQty < oldSum THEN
        LET diff == oldSum - newQty
            m == exactMatchIndex(q, diff)
            largestIdx == largestOrderIndex(q)
        IN  IF m > 0 THEN RemoveAt(q, m)
            ELSE IF largestIdx > 0 THEN
                IF q[largestIdx] > diff
                THEN [q EXCEPT ![largestIdx] = q[largestIdx] - diff]
                ELSE RemoveAt(q, largestIdx)
            ELSE q
    ELSE q

\* a reduction that, when the largest order does not cover diff, removes the
\* newest order instead of the largest
reduceQueueDropNewest(q, newQty) ==
    LET oldSum == sum(q) IN
    IF newQty > oldSum THEN Append(q, newQty - oldSum)
    ELSE IF newQty < oldSum THEN
        LET diff == oldSum - newQty
            m == exactMatchIndex(q, diff)
            largestIdx == largestOrderIndex(q)
        IN  IF m > 0 THEN RemoveAt(q, m)
            ELSE IF largestIdx > 0 THEN
                IF q[largestIdx] > diff
                THEN [q EXCEPT ![largestIdx] = q[largestIdx] - diff]
                ELSE RemoveAt(q, Len(q))
            ELSE q
    ELSE q

\* a reduction that leaves the largest order alone when it exceeds diff
reduceQueueNoPartial(q, newQty) ==
    LET oldSum == sum(q) IN
    IF newQty > oldSum THEN Append(q, newQty - oldSum)
    ELSE IF newQty < oldSum THEN
        LET diff == oldSum - newQty
            m == exactMatchIndex(q, diff)
            largestIdx == largestOrderIndex(q)
        IN  IF m > 0 THEN RemoveAt(q, m)
            ELSE IF largestIdx > 0 THEN
                IF q[largestIdx] > diff
                THEN q
                ELSE RemoveAt(q, largestIdx)
            ELSE q
    ELSE q

\* a reduction that sends the reduced largest order to the back of the queue
reduceQueueRequeue(q, newQty) ==
    LET oldSum == sum(q) IN
    IF newQty > oldSum THEN Append(q, newQty - oldSum)
    ELSE IF newQty < oldSum THEN
        LET diff == oldSum - newQty
            m == exactMatchIndex(q, diff)
            largestIdx == largestOrderIndex(q)
        IN  IF m > 0 THEN RemoveAt(q, m)
            ELSE IF largestIdx > 0 THEN
                IF q[largestIdx] > diff
                THEN Append(RemoveAt(q, largestIdx), q[largestIdx] - diff)
                ELSE RemoveAt(q, largestIdx)
            ELSE q
    ELSE q

\* the body of updateQueue on an existing queue
reduceQueue(q, newQty) ==
    LET oldSum == sum(q) IN
    IF newQty > oldSum THEN Append(q, newQty - oldSum)
    ELSE IF newQty < oldSum THEN
        LET diff == oldSum - newQty
            m == exactMatchIndex(q, diff)
            largestIdx == largestOrderIndex(q)
        IN  IF m > 0 THEN RemoveAt(q, m)
            ELSE IF largestIdx > 0 THEN
                IF q[largestIdx] > diff
                THEN [q EXCEPT ![largestIdx] = q[largestIdx] - diff]
                ELSE RemoveAt(q, largestIdx)
            ELSE q
    ELSE q

\* ---------------------------------------------------------------- side map
EmptyMap == [p \in {} |-> <<>>]
MapPut(side, price, q) ==
    [p \in (DOMAIN side) \cup {price} |-> IF p = price THEN q ELSE side[p]]
MapDelete(side, price) == [p \in (DOMAIN side) \ {price} |-> side[p]]

\* an updateQueue that leaves an absent level absent
updateQueueExistingOnly(side, price, newQty) ==
    IF price \notin DOMAIN side
    THEN side
    ELSE MapPut(side, price, reduceQueue(side[price], newQty))

updateQueue(side, price, newQty) ==
    IF price \notin DOMAIN side
    THEN MapPut(side, price, <<newQty>>)
    ELSE MapPut(side, price, reduceQueue(side[price], newQty))

\* an iteration that hands a zero quantity to updateQueue like any other
applyChangeNoZeroCheck(side, change) ==
    IF Len(change) < 2 THEN side
    ELSE LET price == change[1]
             parsed == NewFromString(change[2])
         IN  IF parsed.err THEN side
             ELSE updateQueue(side, price, parsed.val)

\* an iteration that skips a zero quantity as loadSnapshot does
applyChangeZeroSkipped(side, change) ==
    IF Len(change) < 2 THEN side
    ELSE LET price == change[1]
             parsed == NewFromString(change[2])
         IN  IF parsed.err \/ parsed.val = 0 THEN side
             ELSE updateQueue(side, price, parsed.val)

\* one iteration of a loop of applyDelta
applyChange(side, change) ==
    IF Len(change) < 2 THEN side
    ELSE LET price == change[1]
             parsed == NewFromString(change[2])
         IN  IF parsed.err THEN side
             ELSE IF parsed.val = 0 THEN MapDelete(side, price)
             ELSE updateQueue(side, price, parsed.val)

\* a loop that ends at the first change it cannot use
RECURSIVE applyChangesStopAtBad(_, _)
applyChangesStopAtBad(side, changes) ==
    IF Len(changes) = 0 THEN side
    ELSE IF Len(Head(changes)) < 2 \/ NewFromString(Head(changes)[2]).err THEN side
    ELSE applyChangesStopAtBad(applyChange(side, Head(changes)), Tail(changes))

RECURSIVE applyChanges(_, _)
applyChanges(side, changes) ==
    IF Len(changes) = 0 THEN side
    ELSE applyChanges(applyChange(side, Head(changes)), Tail(changes))

\* one iteration of a loop of loadSnapshot
loadLevel(side, level) ==
    IF Len(level) < 2 THEN side
    ELSE LET parsed == NewFromString(level[2])
         IN  IF parsed.err \/ parsed.val = 0 THEN side
             ELSE MapPut(side, level[1], <<parsed.val>>)

RECURSIVE loadLevels(_, _)
loadLevels(side, levels) ==
    IF Len(levels) = 0 THEN side
    ELSE loadLevels(loadLevel(side, Head(levels)), Tail(levels))

\* ------------------------------------------------------------ L3OrderBook
NewL3OrderBook(symbol) ==
    [bids |-> EmptyMap, asks |-> EmptyMap, symbol |-> symbol, lastID |-> 0]

\* a load that keeps the queues the book held
loadSnapshotNoClear(ob, resp) ==
    [ob EXCEPT !.bids = loadLevels(ob.bids, resp.Bids),
               !.asks = loadLevels(ob.asks, resp.Asks),
               !.lastID = resp.LastUpdateID]

\* a load that adds the snapshot quantity to the queue a level already has
loadSnapshotAppending(ob, resp) ==
    LET grow(side, levels) ==
            [p \in (DOMAIN side) \cup (DOMAIN loadLevels(EmptyMap, levels)) |->
                (IF p \in DOMAIN side THEN side[p] ELSE <<>>) \o
                (IF p \in DOMAIN loadLevels(EmptyMap, levels)
                 THEN loadLevels(EmptyMap, levels)[p] ELSE <<>>)]
    IN  [ob EXCEPT !.bids = grow(ob.bids, resp.Bids),
                   !.asks = grow(ob.asks, resp.Asks),
                   !.lastID = resp.LastUpdateID]

loadSnapshot(ob, resp) ==
    [ob EXCEPT !.bids = loadLevels(EmptyMap, resp.Bids),
               !.asks = loadLevels(EmptyMap, resp.Asks),
               !.lastID = resp.LastUpdateID]

\* an applyDelta that drops a delta not newer than the book
applyDeltaIfNewer(ob, update) ==
    IF update.U <= ob.lastID THEN ob
    ELSE [ob EXCEPT !.bids = applyChanges(ob.bids, update.B),
                    !.asks = applyChanges(ob.asks, update.A)]

applyDelta(ob, update) ==
    [ob EXCEPT !.bids = applyChanges(ob.bids, update.B),
               !.asks = applyChanges(ob.asks, update.A)]

\* ---------------------------------------------------------- getL3Snapshot
\* the levels of a side that carry their individual orders (i < 10)
TopOrders == 10
\* the number of levels a publisher asks for
PublishedLevels == 100

min(a, b) == IF a < b THEN a ELSE b

\* the price a key sorts by: the error of NewFromString is dropped and the
\* zero Decimal is compared
PriceValue(price) == NewFromString(price).val

\* the order of the key strings themselves, character by character
CharRank(c) == CHOOSE i \in 1..14 : <<"-", ".", "0", "1", "2", "3", "4", "5", "6", "7", "8", "9", "x", "?">>[i] = c
RECURSIVE StringLess(_, _)
StringLess(x, y) ==
    IF Len(y) = 0 THEN FALSE
    ELSE IF Len(x) = 0 THEN TRUE
    ELSE IF Head(x) # Head(y) THEN CharRank(Head(x)) < CharRank(Head(y))
    ELSE StringLess(Tail(x), Tail(y))
\* comparators that compare the keys as strings
lessByString(x, y, descending) ==
    IF descending THEN StringLess(y, x) ELSE StringLess(x, y)

\* the comparators handed to sort.Slice: GreaterThan for bids, LessThan for
\* asks
less(x, y, descending) ==
    IF descending THEN PriceValue(x) > PriceValue(y) ELSE PriceValue(x) < PriceValue(y)

\* sort.Slice: any arrangement of the keys in which no key is `less` than
\* one placed before it (keys that compare equal end up in either order)
RECURSIVE SortSlice(_, _)
SortSlice(keys, descending) ==
    IF keys = {} THEN {<<>>}
    ELSE UNION {{<<k>> \o rest : rest \in SortSlice(keys \ {k}, descending)} :
                    k \in {x \in keys : \A y \in keys : ~less(y, x, descending)}}

MaxOf(q) == CHOOSE v \in {q[i] : i \in 1..Len(q)} : \A i \in 1..Len(q) : q[i] <= v

\* a level whose orders are listed newest first
LevelNewestFirst(price, q, i) ==
    [Price |-> PriceValue(price),
     TotalSize |-> sum(q),
     OrderCount |-> Len(q),
     MaxOrder |-> IF Len(q) > 0 THEN MaxOf(q) ELSE 0,
     AvgOrder |-> IF Len(q) > 0 THEN <<sum(q), Len(q)>> ELSE <<0, 1>>,
     HasOrders |-> i < TopOrders,
     Orders |-> IF i < TopOrders THEN [k \in 1..Len(q) |-> q[Len(q) + 1 - k]] ELSE <<>>]

\* a level that lists its orders at every position
LevelAlwaysOrders(price, q, i) ==
    [Price |-> PriceValue(price),
     TotalSize |-> sum(q),
     OrderCount |-> Len(q),
     MaxOrder |-> IF Len(q) > 0 THEN MaxOf(q) ELSE 0,
     AvgOrder |-> IF Len(q) > 0 THEN <<sum(q), Len(q)>> ELSE <<0, 1>>,
     HasOrders |-> TRUE,
     Orders |-> q]

\* the L3Level built at position i (from 0) of a side; avg_order is kept as
\* the exact quotient total/count
Level(price, q, i) ==
    [Price |-> PriceValue(price),
     TotalSize |-> sum(q),
     OrderCount |-> Len(q),
     MaxOrder |-> IF Len(q) > 0 THEN MaxOf(q) ELSE 0,
     AvgOrder |-> IF Len(q) > 0 THEN <<sum(q), Len(q)>> ELSE <<0, 1>>,
     HasOrders |-> i < TopOrders,
     Orders |-> IF i < TopOrders THEN q ELSE <<>>]

\* a loop that takes the levels from the far end of the sorted keys
LevelsFromWorst(side, prices, topLevels) ==
    [k \in 1..min(topLevels, Len(prices)) |->
        Level(prices[Len(prices) + 1 - k], side[prices[Len(prices) + 1 - k]], k - 1)]

Levels(side, prices, topLevels) ==
    [k \in 1..min(topLevels, Len(prices)) |-> Level(prices[k], side[prices[k]], k - 1)]

\* the snapshots getL3Snapshot may return for a book (the wall-clock
\* timestamp is left out)
getL3Snapshot(ob, topLevels) ==
    {[Bids |-> Levels(ob.bids, bidPrices, topLevels),
      Asks |-> Levels(ob.asks, askPrices, topLevels),
      Symbol |-> ob.symbol] :
        bidPrices \in SortSlice(DOMAIN ob.bids, TRUE),
        askPrices \in SortSlice(DOMAIN ob.asks, FALSE)}
NoL3Snapshot == [Bids |-> <<>>, Asks |-> <<>>, Symbol |-> <<>>]

\* --------------------------------------------------------------- state
VARIABLES
    books,      \* the L3OrderBook objects allocated so far, by index
    last,       \* history: the last call made on a book, its argument and the book before it
    valid,      \* history: every quantity string handed to a book so far parsed to a value >= 0
    app,        \* appState: book (an index of books), currentSymbol, binanceCancel (an index of chans)
    chans,      \* the cancel channels made so far: the number of values buffered in each (capacity 1)
    sync,       \* the runBinanceSync goroutines started so far: arguments, position, WebSocket
    hist,       \* history, per book and its channel: the send, the loads, the first call
    wrote,      \* history: the last call a synchronizer made on a book
    appMu,      \* appState.mu: writer held, number of read holders
    bookMu,     \* L3OrderBook.mu of each book: writer held, number of read holders
    pub,        \* the publisher loop of each subscriber connection
    pm          \* the PrecisionManager: precisions (symbol -> PrecisionInfo) and now, the clock time.Now() reads

lockVars == <<appMu, bookMu, pub>>
sysVars == <<app, chans, sync, hist, wrote, appMu, bookMu, pub>>
vars == <<books, last, valid, app, chans, sync, hist, wrote, appMu, bookMu, pub, pm>>

\* --------------------------------------------------------- engine inputs
EnginePrices == {S_10}
EngineBidQtys == {S_0, S_2, S_3, S_4, S_5}
EngineAskQtys == {S_0, S_2, S_bad}
SnapshotQtys == {S_0, S_2, S_bad}
Changes(P, Q) == {<<p, q>> : p \in P, q \in Q}

\* the change lists <<bids, asks>> of one message: at most one change a side
AtMostOne(C) == {<<>>} \cup {<<c>> : c \in C}
ChangeLists(BC, AC) == AtMostOne(BC) \X AtMostOne(AC)

\* json.Unmarshal into binanceWSUpdate: the exported field U carries the tag
\* "u" and receives the wire's final update id; the unexported field u is
\* never set.
Unmarshal(wire) == [U |-> wire.u, u |-> 0, B |-> wire.b, A |-> wire.a]

EngineDeltas ==
    {Unmarshal([U |-> 0, u |-> id, b |-> bs[1], a |-> bs[2]]) :
        id \in 1..MaxID,
        bs \in ChangeLists(Changes(EnginePrices, EngineBidQtys), Changes(EnginePrices, EngineAskQtys))}
EngineSnapshots ==
    {[LastUpdateID |-> id, Bids |-> bs[1], Asks |-> bs[2]] :
        id \in 1..MaxID,
        bs \in ChangeLists(Changes(EnginePrices, SnapshotQtys), Changes(EnginePrices, SnapshotQtys))}

QtyValid(change) ==
    Len(change) < 2 \/ (~NewFromString(change[2]).err /\ NewFromString(change[2]).val >= 0)
AllQtyValid(bidList, askList) ==
    /\ \A i \in 1..Len(bidList) : QtyValid(bidList[i])
    /\ \A i \in 1..Len(askList) : QtyValid(askList[i])

NoCall == [op |-> "none", id |-> 0, B |-> <<>>, A |-> <<>>, pre |-> NewL3OrderBook(<<>>)]

\* symbols are strings of characters
ETHUSDT == <<"E", "T", "H">>
BTCUSDT == <<"B", "T", "C">>
ethusdt == <<"e", "t", "h">>
btcusdt == <<"b", "t", "c">>
UpperChars == <<"E", "T", "H", "B", "C">>
LowerChars == <<"e", "t", "h", "b", "c">>
ToLowerChar(c) ==
    IF \E i \in 1..Len(UpperChars) : UpperChars[i] = c
    THEN LowerChars[CHOOSE i \in 1..Len(UpperChars) : UpperChars[i] = c]
    ELSE c
\* strings.ToLower
ToLower(str) == [i \in 1..Len(str) |-> ToLowerChar(str[i])]

\* NewPrecisionManager: no entry cached; the clock starts at 0
NewPrecisionManager == [precisions |-> EmptyMap, now |-> 0]

InitEngine ==
    /\ books = <<NewL3OrderBook(ethusdt)>>
    /\ last = NoCall
    /\ valid = TRUE
    /\ app = [book |-> 1, currentSymbol |-> ethusdt, binanceCancel |-> 1]
    /\ chans = <<0>>
    /\ sync = <<>>
    /\ hist = <<>>
    /\ wrote = [sync |-> 0, book |-> 0, op |-> "none", late |-> FALSE]
    /\ appMu = [writer |-> FALSE, readers |-> 0]
    /\ bookMu = <<[writer |-> FALSE, readers |-> 0]>>
    /\ pub = <<>>
    /\ pm = NewPrecisionManager

\* a call of loadSnapshot on the book
LoadSnapshotCall(resp) ==
    /\ books' = [books EXCEPT ![1] = loadSnapshot(@, resp)]
    /\ last' = [op |-> "loadSnapshot", id |-> resp.LastUpdateID,
                B |-> resp.Bids, A |-> resp.Asks, pre |-> books[1]]
    /\ valid' = (valid /\ AllQtyValid(resp.Bids, resp.Asks))
    /\ UNCHANGED pm
    /\ UNCHANGED sysVars

\* a call of applyDelta on the book
ApplyDeltaCall(update) ==
    /\ books' = [books EXCEPT ![1] = applyDelta(@, update)]
    /\ last' = [op |-> "applyDelta", id |-> update.U,
                B |-> update.B, A |-> update.A, pre |-> books[1]]
    /\ valid' = (valid /\ AllQtyValid(update.B, update.A))
    /\ UNCHANGED pm
    /\ UNCHANGED sysVars

NextEngine ==
    \/ \E resp \in EngineSnapshots : LoadSnapshotCall(resp)
    \/ \E update \in EngineDeltas : ApplyDeltaCall(update)

SpecEngine == InitEngine /\ [][NextEngine]_vars

\* ------------------------------------------------- engine: the claims
Max2(a, b) == IF a > b THEN a ELSE b
Sides(ob) == {ob.bids, ob.asks}

\* the last call was an applyDelta whose single bid change named a level
\* that was present, with a quantity that parsed
BidTouched ==
    /\ last.op = "applyDelta"
    /\ Len(last.B) = 1
    /\ Len(last.B[1]) = 2
    /\ ~NewFromString(last.B[1][2]).err
    /\ last.B[1][1] \in DOMAIN last.pre.bids
BidPrice == last.B[1][1]
BidNewQty == NewFromString(last.B[1][2]).val
BidOldQueue == last.pre.bids[BidPrice]
BidDiff == sum(BidOldQueue) - BidNewQty
\* the change lowered the level: 0 < new_qty < old_sum
BidLowered == BidTouched /\ 0 < BidNewQty /\ BidNewQty < sum(BidOldQueue)
BidHasExact == \E i \in 1..Len(BidOldQueue) : BidOldQueue[i] = BidDiff
BidLargest == CHOOSE v \in {BidOldQueue[i] : i \in 1..Len(BidOldQueue)} :
                \A i \in 1..Len(BidOldQueue) : BidOldQueue[i] <= v
BidNewQueue == books[1].bids[BidPrice]

\* C1: as long as every quantity handed to loadSnapshot and applyDelta parsed
\* and was non-negative, every queue of either side map holds only strictly
\* positive entries and no side map retains an empty queue.
C1_PositiveQueues ==
    valid => \A side \in Sides(books[1]) : \A p \in DOMAIN side :
                /\ ~isEmpty(side[p])
                /\ \A i \in 1..Len(side[p]) : side[p][i] > 0
\* a valid applyDelta has just shortened a queue that stays in the map
C1_Witness ==
    /\ valid
    /\ BidTouched
    /\ BidPrice \in DOMAIN books[1].bids
    /\ Len(BidNewQueue) < Len(BidOldQueue)
    /\ DOMAIN books[1].asks # {}

\* C7: lastID is 0 before the first snapshot, the snapshot id right after
\* loadSnapshot, and max(previous lastID, u) after applyDelta of a delta
\* whose final update id is u.
C7_LastIdIsMax ==
    /\ last.op = "none" => books[1].lastID = 0
    /\ last.op = "loadSnapshot" => books[1].lastID = last.id
    /\ last.op = "applyDelta" => books[1].lastID = Max2(last.pre.lastID, last.id)

\* C8: when a change lowers a level and some entry equals diff, exactly the
\* highest-index entry equal to diff is removed, the others keep their
\* values and order, and the new sum is new_qty.
C8_ExactMatchFromBack ==
    (BidLowered /\ BidHasExact) =>
        /\ BidPrice \in DOMAIN books[1].bids
        /\ \E i \in 1..Len(BidOldQueue) :
              /\ BidOldQueue[i] = BidDiff
              /\ \A j \in (i + 1)..Len(BidOldQueue) : BidOldQueue[j] # BidDiff
              /\ BidNewQueue = SubSeq(BidOldQueue, 1, i - 1) \o SubSeq(BidOldQueue, i + 1, Len(BidOldQueue))
        /\ sum(BidNewQueue) = BidNewQty
\* two entries equal diff, with another entry after the first of them
C8_Witness ==
    /\ BidLowered
    /\ \E i, j, k \in 1..Len(BidOldQueue) :
          i < j /\ j < k /\ BidOldQueue[i] = BidDiff /\ BidOldQueue[k] = BidDiff
          /\ BidOldQueue[j] # BidDiff
    /\ Len(BidNewQueue) = Len(BidOldQueue) - 1

C10_RemoveLargestShortfall ==
    (BidLowered /\ ~BidHasExact /\ BidLargest <= BidDiff) =>
        /\ BidPrice \in DOMAIN books[1].bids
        /\ \E i \in 1..Len(BidOldQueue) :
              /\ BidOldQueue[i] = BidLargest
              /\ \A j \in 1..(i - 1) : BidOldQueue[j] # BidLargest
              /\ BidNewQueue = SubSeq(BidOldQueue, 1, i - 1) \o SubSeq(BidOldQueue, i + 1, Len(BidOldQueue))
        /\ sum(BidNewQueue) = sum(BidOldQueue) - BidLargest
        /\ sum(BidNewQueue) > BidNewQty
\* the largest entry occurs twice around a smaller one and the first went
C10_Witness ==
    /\ BidLowered /\ ~BidHasExact /\ BidLargest <= BidDiff
    /\ \E i, j, k \in 1..Len(BidOldQueue) :
          i < j /\ j < k /\ BidOldQueue[i] = BidLargest /\ BidOldQueue[k] = BidLargest
          /\ BidOldQueue[j] < BidLargest
    /\ Len(BidNewQueue) = Len(BidOldQueue) - 1

\* ------------------------------------------------- the feed synchronizer
\* books (and so cancel channels and synchronizers) ever made
MaxBooks == 2

\* http.Get(snapURL) and the decoding of its body
GoodSnapshot == [LastUpdateID |-> 1, Bids |-> <<<<S_10, S_2>>>>, Asks |-> <<<<S_10, S_3>>>>]
ZeroIdSnapshot == [LastUpdateID |-> 0, Bids |-> <<<<S_10, S_2>>>>, Asks |-> <<>>]
RestOutcomes ==
    {[err |-> FALSE, status |-> 200, decodeErr |-> FALSE, body |-> GoodSnapshot],
     [err |-> FALSE, status |-> 200, decodeErr |-> FALSE, body |-> ZeroIdSnapshot],
     [err |-> FALSE, status |-> 200, decodeErr |-> TRUE, body |-> GoodSnapshot],
     [err |-> FALSE, status |-> 500, decodeErr |-> FALSE, body |-> GoodSnapshot],
     [err |-> TRUE, status |-> 0, decodeErr |-> FALSE, body |-> GoodSnapshot]}
\* a test that takes any body that decoded
SnapshotAcceptedAnyId(o) ==
    ~o.err /\ o.status = 200 /\ ~o.decodeErr

\* the test that leaves the snapshot loop (goto snapshotLoaded)
SnapshotAccepted(o) ==
    ~o.err /\ o.status = 200 /\ ~o.decodeErr /\ o.body.LastUpdateID # 0

\* ws.ReadMessage and json.Unmarshal of the message
RaiseBid == [U |-> 1, u |-> 2, b |-> <<<<S_10, S_3>>>>, a |-> <<>>]
StaleLower == [U |-> 1, u |-> 1, b |-> <<<<S_10, S_2>>>>, a |-> <<>>]
NoWire == [U |-> 0, u |-> 0, b |-> <<>>, a |-> <<>>]
ReadFailures ==
    {[kind |-> "timeout", wire |-> NoWire],
     [kind |-> "closeError", wire |-> NoWire],
     [kind |-> "error", wire |-> NoWire],
     [kind |-> "undecodable", wire |-> NoWire]}
ReadOutcomes ==
    ReadFailures \cup {[kind |-> "message", wire |-> w] : w \in {RaiseBid, StaleLower}}

NoUpdate == Unmarshal(NoWire)
NoSnapshot == [LastUpdateID |-> 0, Bids |-> <<>>, Asks |-> <<>>]

\* go runBinanceSync(symbol, book, cancel): the goroutine at its loop head
NewSync(symbol, book, cancel) ==
    [symbol |-> symbol, book |-> book, cancel |-> cancel,
     pc |-> "loop", wsOpen |-> FALSE, upd |-> NoUpdate, resp |-> NoSnapshot,
     todoB |-> <<>>, todoA |-> <<>>,    \* what is left of the loops of a call in progress
     pre |-> NewL3OrderBook(<<>>),      \* history: the book when the call in progress began
     connLoads |-> 0]       \* history: loadSnapshot calls on the open connection
\* history of a book and of the channel made with it
NewHist == [raised |-> FALSE, loads |-> "none", firstOp |-> "none"]
NoWrite == [sync |-> 0, book |-> 0, op |-> "none", late |-> FALSE]

\* the book a synchronizer reading the global appState would write
SyncBookGlobal(s) == app.book

\* the book a synchronizer writes: its parameter
SyncBook(s) == sync[s].book

\* `case <-cancel` is ready
CancelPending(s) == chans[sync[s].cancel] > 0
\* the controller has sent on this synchronizer's channel
Raised(s) == hist[sync[s].cancel].raised
\* only the synchronizer receives from its channel: the value is gone once
\* one of its checks has received it
Observed(s) == Raised(s) /\ ~CancelPending(s)

\* receiving from the channel takes the value out of it
Receive(s) == chans' = [chans EXCEPT ![sync[s].cancel] = 0]

\* a sync.RWMutex
Unlocked == [writer |-> FALSE, readers |-> 0]
CanLock(mu) == ~mu.writer /\ mu.readers = 0
CanRLock(mu) == ~mu.writer

\* subscriber connections, each with its publisher loop
NumSubscribers == 1
\* the ticker loop of wsHandler, waiting for its tick
NewPublisher ==
    [pc |-> "tick", book |-> 0, snap |-> NoL3Snapshot,
     of |-> NewL3OrderBook(<<>>)]   \* history: the book as its last completed call left it

Init ==
    /\ books = <<NewL3OrderBook(ethusdt)>>
    /\ last = NoCall
    /\ valid = TRUE
    /\ app = [book |-> 1, currentSymbol |-> ethusdt, binanceCancel |-> 1]
    /\ chans = <<0>>
    /\ sync = <<NewSync(ethusdt, 1, 1)>>
    /\ hist = <<NewHist>>
    /\ wrote = NoWrite
    /\ appMu = Unlocked
    /\ bookMu = <<Unlocked>>
    /\ pub = [p \in 1..NumSubscribers |-> NewPublisher]
    /\ pm = NewPrecisionManager

\* connectAndSync returns an error: the deferred ws.Close, then the log line
\* of runBinanceSync
ReturnError(sy) == [sy EXCEPT !.pc = "backoff", !.wsOpen = FALSE, !.connLoads = 0]

\* runBinanceSync: the select at the head of its loop and, on default,
\* connectAndSync up to websocket.DefaultDialer.Dial
SyncLoopHead(s) ==
    /\ sync[s].pc = "loop"
    /\ IF CancelPending(s)
       THEN /\ Receive(s)
            /\ sync' = [sync EXCEPT ![s].pc = "returned"]
       ELSE /\ \E ok \in BOOLEAN :
                 sync' = IF ok
                         THEN [sync EXCEPT ![s].pc = "snap", ![s].wsOpen = TRUE]
                         ELSE [sync EXCEPT ![s] = ReturnError(@)]
            /\ UNCHANGED chans
    /\ UNCHANGED <<books, app, hist, wrote, last, valid, pm, lockVars>>

\* a synchronizer that gives up after a failed connection
SyncBackoffGivesUp(s) ==
    /\ sync[s].pc = "backoff"
    /\ sync' = [sync EXCEPT ![s].pc = "returned"]
    /\ UNCHANGED <<books, app, chans, hist, wrote, last, valid, pm, lockVars>>

\* runBinanceSync: connectAndSync returned an error; sleep 5 s and continue
SyncBackoff(s) ==
    /\ sync[s].pc = "backoff"
    /\ sync' = [sync EXCEPT ![s].pc = "loop"]
    /\ UNCHANGED <<books, app, chans, hist, wrote, last, valid, pm, lockVars>>

\* connectAndSync: one turn of the snapshot loop
SyncSnapshot(s) ==
    /\ sync[s].pc = "snap"
    /\ IF CancelPending(s)
       THEN /\ Receive(s)
            /\ sync' = [sync EXCEPT ![s] = ReturnError(@)]
       ELSE /\ \E o \in RestOutcomes :
                 sync' = IF SnapshotAccepted(o)
                         THEN [sync EXCEPT ![s].pc = "load", ![s].resp = o.body]
                         ELSE sync
            /\ UNCHANGED chans
    /\ UNCHANGED <<books, app, hist, wrote, last, valid, pm, lockVars>>

NoteLoad(h) ==
    [h EXCEPT !.loads = IF @ = "none" THEN "once" ELSE "again",
              !.firstOp = IF @ = "none" THEN "load" ELSE @]
NoteDelta(h) ==
    [h EXCEPT !.firstOp = IF @ = "none" THEN "delta" ELSE @]

\* a synchronizer that goes live without loading the snapshot it fetched
SyncLoadSkipped(s) ==
    /\ sync[s].pc = "load"
    /\ sync' = [sync EXCEPT ![s].pc = "live", ![s].resp = NoSnapshot]
    /\ UNCHANGED <<books, app, chans, hist, wrote, last, valid, pm, lockVars>>

\* connectAndSync: snapshotLoaded, book.loadSnapshot(&snapResp)
SyncLoad(s) ==
    /\ sync[s].pc = "load"
    /\ books' = [books EXCEPT ![SyncBook(s)] = loadSnapshot(@, sync[s].resp)]
    /\ sync' = [sync EXCEPT ![s].pc = "live", ![s].resp = NoSnapshot,
                            ![s].connLoads = @ + 1]
    /\ hist' = [hist EXCEPT ![SyncBook(s)] = NoteLoad(@)]
    /\ wrote' = [sync |-> s, book |-> SyncBook(s), op |-> "loadSnapshot", late |-> Raised(s)]
    /\ UNCHANGED <<app, chans, last, valid, pm, lockVars>>

\* connectAndSync: one turn of the read loop, up to the decoded update
SyncLive(s, outcomes) ==
    /\ sync[s].pc = "live"
    /\ IF CancelPending(s)
       THEN /\ Receive(s)
            /\ sync' = [sync EXCEPT ![s] = ReturnError(@)]
       ELSE /\ \E r \in outcomes :
                 sync' = IF r.kind \in {"closeError", "error"}
                         THEN [sync EXCEPT ![s] = ReturnError(@)]
                         ELSE IF r.kind = "message"
                         THEN [sync EXCEPT ![s].pc = "apply", ![s].upd = Unmarshal(r.wire)]
                         ELSE sync
            /\ UNCHANGED chans
    /\ UNCHANGED <<books, app, hist, wrote, last, valid, pm, lockVars>>

\* connectAndSync: book.applyDelta(&update)
SyncApply(s) ==
    /\ sync[s].pc = "apply"
    /\ books' = [books EXCEPT ![SyncBook(s)] = applyDelta(@, sync[s].upd)]
    /\ sync' = [sync EXCEPT ![s].pc = "live", ![s].upd = NoUpdate]
    /\ hist' = [hist EXCEPT ![SyncBook(s)] = NoteDelta(@)]
    /\ wrote' = [sync |-> s, book |-> SyncBook(s), op |-> "applyDelta", late |-> Raised(s)]
    /\ UNCHANGED <<app, chans, last, valid, pm, lockVars>>

\* ------------------------------------------------------- the controller
\* the commands a subscriber sends
Commands ==
    {[Type |-> t, Symbol |-> y] :
        t \in {"switch_symbol", "toggle_kmeans"}, y \in {ETHUSDT, BTCUSDT, btcusdt, <<>>}}

\* a switch that does not compare the new symbol with the current one
switchSymbolAlways(newSymbol) ==
    LET old == app.binanceCancel
        new == Len(books) + 1
    IN  /\ Len(books) < MaxBooks
        /\ chans' = Append([chans EXCEPT ![old] = 1], 0)
        /\ hist' = Append([hist EXCEPT ![old].raised = TRUE], NewHist)
        /\ books' = Append(books, NewL3OrderBook(newSymbol))
        /\ app' = [book |-> new, currentSymbol |-> newSymbol, binanceCancel |-> new]
        /\ bookMu' = Append(bookMu, Unlocked)
        /\ sync' = Append(sync, NewSync(newSymbol, new, new))

\* a switch that installs the new Book without starting a synchronizer
switchSymbolNoSync(newSymbol) ==
    IF app.currentSymbol = newSymbol
    THEN UNCHANGED <<books, app, chans, sync, hist, bookMu>>
    ELSE LET old == app.binanceCancel
             new == Len(books) + 1
         IN  /\ Len(books) < MaxBooks
             /\ chans' = Append([chans EXCEPT ![old] = 1], 0)
             /\ hist' = Append([hist EXCEPT ![old].raised = TRUE], NewHist)
             /\ books' = Append(books, NewL3OrderBook(newSymbol))
             /\ app' = [book |-> new, currentSymbol |-> newSymbol, binanceCancel |-> new]
             /\ bookMu' = Append(bookMu, Unlocked)
             /\ sync' = sync

\* switchSymbol, under appState.mu from its first line to its return
switchSymbol(newSymbol) ==
    IF app.currentSymbol = newSymbol
    THEN UNCHANGED <<books, app, chans, sync, hist, bookMu>>
    ELSE LET old == app.binanceCancel
             new == Len(books) + 1
         IN  /\ Len(books) < MaxBooks
             \* select { case appState.binanceCancel <- true: default: }
             /\ chans' = Append([chans EXCEPT ![old] = 1], 0)
             /\ hist' = Append([hist EXCEPT ![old].raised = TRUE], NewHist)
             /\ books' = Append(books, NewL3OrderBook(newSymbol))
             /\ app' = [book |-> new, currentSymbol |-> newSymbol, binanceCancel |-> new]
             /\ bookMu' = Append(bookMu, Unlocked)
             /\ sync' = Append(sync, NewSync(newSymbol, new, new))

\* wsHandler: the command goroutine reads one message and handles it
Command(msg) ==
    /\ CanLock(appMu)
    /\ IF msg.Type = "switch_symbol" /\ msg.Symbol # <<>>
       THEN switchSymbol(ToLower(msg.Symbol))
       ELSE UNCHANGED <<books, app, chans, sync, hist, bookMu>>
    /\ UNCHANGED <<wrote, last, valid, pm, appMu, pub>>

Next ==
    \/ \E s \in 1..Len(sync) : SyncLoopHead(s)
    \/ \E s \in 1..Len(sync) : SyncBackoff(s)
    \/ \E s \in 1..Len(sync) : SyncSnapshot(s)
    \/ \E s \in 1..Len(sync) : SyncLoad(s)
    \/ \E s \in 1..Len(sync) : SyncLive(s, ReadOutcomes)
    \/ \E s \in 1..Len(sync) : SyncApply(s)
    \/ \E msg \in Commands : Command(msg)

Spec == Init /\ [][Next]_vars

\* ------------------------------------ the calls on a book, lock by lock
\* messages whose changes touch both sides
RaiseBidDropAsk == [U |-> 1, u |-> 2, b |-> <<<<S_10, S_3>>>>, a |-> <<<<S_10, S_0>>>>]
LowerBidAddAsk == [U |-> 2, u |-> 3, b |-> <<<<S_10, S_2>>>>, a |-> <<<<S_10, S_3>>>>]
TwoSidedOutcomes ==
    ReadFailures \cup {[kind |-> "message", wire |-> w] : w \in {RaiseBidDropAsk, LowerBidAddAsk}}

\* loadSnapshot: ob.mu.Lock() and the two fresh maps
SyncLoadBegin(s) ==
    /\ sync[s].pc = "load"
    /\ CanLock(bookMu[SyncBook(s)])
    /\ bookMu' = [bookMu EXCEPT ![SyncBook(s)].writer = TRUE]
    /\ books' = [books EXCEPT ![SyncBook(s)].bids = EmptyMap, ![SyncBook(s)].asks = EmptyMap]
    /\ sync' = [sync EXCEPT ![s].pc = "loading", ![s].pre = books[SyncBook(s)],
                            ![s].todoB = sync[s].resp.Bids, ![s].todoA = sync[s].resp.Asks]
    /\ UNCHANGED <<app, chans, hist, wrote, last, valid, pm, appMu, pub>>

\* loadSnapshot: one iteration of the bid loop, or of the ask loop after it
SyncLoadStep(s) ==
    /\ sync[s].pc = "loading"
    /\ Len(sync[s].todoB) + Len(sync[s].todoA) > 0
    /\ IF Len(sync[s].todoB) > 0
       THEN /\ books' = [books EXCEPT ![SyncBook(s)].bids = loadLevel(@, Head(sync[s].todoB))]
            /\ sync' = [sync EXCEPT ![s].todoB = Tail(@)]
       ELSE /\ books' = [books EXCEPT ![SyncBook(s)].asks = loadLevel(@, Head(sync[s].todoA))]
            /\ sync' = [sync EXCEPT ![s].todoA = Tail(@)]
    /\ UNCHANGED <<app, chans, hist, wrote, last, valid, pm, lockVars>>

\* loadSnapshot: ob.lastID and the deferred ob.mu.Unlock()
SyncLoadEnd(s) ==
    /\ sync[s].pc = "loading"
    /\ Len(sync[s].todoB) + Len(sync[s].todoA) = 0
    /\ books' = [books EXCEPT ![SyncBook(s)].lastID = sync[s].resp.LastUpdateID]
    /\ bookMu' = [bookMu EXCEPT ![SyncBook(s)].writer = FALSE]
    /\ sync' = [sync EXCEPT ![s].pc = "live", ![s].resp = NoSnapshot,
                            ![s].pre = NewL3OrderBook(<<>>), ![s].connLoads = @ + 1]
    /\ hist' = [hist EXCEPT ![SyncBook(s)] = NoteLoad(@)]
    /\ wrote' = [sync |-> s, book |-> SyncBook(s), op |-> "loadSnapshot", late |-> Raised(s)]
    /\ UNCHANGED <<app, chans, last, valid, pm, appMu, pub>>

\* applyDelta: ob.mu.Lock()
SyncApplyBegin(s) ==
    /\ sync[s].pc = "apply"
    /\ CanLock(bookMu[SyncBook(s)])
    /\ bookMu' = [bookMu EXCEPT ![SyncBook(s)].writer = TRUE]
    /\ sync' = [sync EXCEPT ![s].pc = "applying", ![s].pre = books[SyncBook(s)],
                            ![s].todoB = sync[s].upd.B, ![s].todoA = sync[s].upd.A]
    /\ UNCHANGED <<books, app, chans, hist, wrote, last, valid, pm, appMu, pub>>

\* applyDelta: one iteration of the bid loop, or of the ask loop after it
SyncApplyStep(s) ==
    /\ sync[s].pc = "applying"
    /\ Len(sync[s].todoB) + Len(sync[s].todoA) > 0
    /\ IF Len(sync[s].todoB) > 0
       THEN /\ books' = [books EXCEPT ![SyncBook(s)].bids = applyChange(@, Head(sync[s].todoB))]
            /\ sync' = [sync EXCEPT ![s].todoB = Tail(@)]
       ELSE /\ books' = [books EXCEPT ![SyncBook(s)].asks = applyChange(@, Head(sync[s].todoA))]
            /\ sync' = [sync EXCEPT ![s].todoA = Tail(@)]
    /\ UNCHANGED <<app, chans, hist, wrote, last, valid, pm, lockVars>>

\* applyDelta: the deferred ob.mu.Unlock()
SyncApplyEnd(s) ==
    /\ sync[s].pc = "applying"
    /\ Len(sync[s].todoB) + Len(sync[s].todoA) = 0
    /\ bookMu' = [bookMu EXCEPT ![SyncBook(s)].writer = FALSE]
    /\ sync' = [sync EXCEPT ![s].pc = "live", ![s].upd = NoUpdate,
                            ![s].pre = NewL3OrderBook(<<>>)]
    /\ hist' = [hist EXCEPT ![SyncBook(s)] = NoteDelta(@)]
    /\ wrote' = [sync |-> s, book |-> SyncBook(s), op |-> "applyDelta", late |-> Raised(s)]
    /\ UNCHANGED <<books, app, chans, last, valid, pm, appMu, pub>>

\* the book as the last completed loadSnapshot or applyDelta left it
Stable(b) ==
    IF \E s \in 1..Len(sync) : sync[s].pc \in {"loading", "applying"} /\ SyncBook(s) = b
    THEN sync[CHOOSE s \in 1..Len(sync) :
                sync[s].pc \in {"loading", "applying"} /\ SyncBook(s) = b].pre
    ELSE books[b]

\* ------------------------------------------------------------ publisher
\* a reader that does not wait for the writer
BookReadableUnlocked(b) == TRUE

\* ob.mu.RLock() can be taken
BookReadable(b) == CanRLock(bookMu[b])

\* wsHandler, on a tick: appState.mu.RLock()
PubLockApp(p) ==
    /\ pub[p].pc = "tick"
    /\ CanRLock(appMu)
    /\ appMu' = [appMu EXCEPT !.readers = @ + 1]
    /\ pub' = [pub EXCEPT ![p].pc = "appLocked"]
    /\ UNCHANGED <<books, app, chans, sync, hist, wrote, last, valid, pm, bookMu>>

\* appState.book.getL3Snapshot(100): ob.mu.RLock()
PubLockBook(p) ==
    /\ pub[p].pc = "appLocked"
    /\ BookReadable(app.book)
    /\ bookMu' = [bookMu EXCEPT ![app.book].readers = @ + 1]
    /\ pub' = [pub EXCEPT ![p].pc = "bookLocked", ![p].book = app.book]
    /\ UNCHANGED <<books, app, chans, sync, hist, wrote, last, valid, pm, appMu>>

\* getL3Snapshot: the snapshot is built and returned, the deferred
\* ob.mu.RUnlock() runs, then appState.mu.RUnlock()
PubSnapshot(p) ==
    /\ pub[p].pc = "bookLocked"
    /\ \E snapshot \in getL3Snapshot(books[pub[p].book], PublishedLevels) :
         pub' = [pub EXCEPT ![p].pc = "write", ![p].snap = snapshot,
                            ![p].of = Stable(pub[p].book)]
    /\ bookMu' = [bookMu EXCEPT ![pub[p].book].readers = @ - 1]
    /\ appMu' = [appMu EXCEPT !.readers = @ - 1]
    /\ UNCHANGED <<books, app, chans, sync, hist, wrote, last, valid, pm>>

\* conn.WriteJSON(message), then the next tick
PubWrite(p) ==
    /\ pub[p].pc = "write"
    /\ pub' = [pub EXCEPT ![p] = NewPublisher]
    /\ UNCHANGED <<books, app, chans, sync, hist, wrote, last, valid, pm, appMu, bookMu>>

NextLock ==
    \/ \E s \in 1..Len(sync) : SyncLoopHead(s)
    \/ \E s \in 1..Len(sync) : SyncBackoff(s)
    \/ \E s \in 1..Len(sync) : SyncSnapshot(s)
    \/ \E s \in 1..Len(sync) : SyncLoadBegin(s)
    \/ \E s \in 1..Len(sync) : SyncLoadStep(s)
    \/ \E s \in 1..Len(sync) : SyncLoadEnd(s)
    \/ \E s \in 1..Len(sync) : SyncLive(s, TwoSidedOutcomes)
    \/ \E s \in 1..Len(sync) : SyncApplyBegin(s)
    \/ \E s \in 1..Len(sync) : SyncApplyStep(s)
    \/ \E s \in 1..Len(sync) : SyncApplyEnd(s)
    \/ \E p \in 1..Len(pub) : PubLockApp(p)
    \/ \E p \in 1..Len(pub) : PubLockBook(p)
    \/ \E p \in 1..Len(pub) : PubSnapshot(p)
    \/ \E p \in 1..Len(pub) : PubWrite(p)

SpecLock == Init /\ [][NextLock]_vars

\* C5: every snapshot a publisher takes shows the Book as a completed
\* loadSnapshot or applyDelta left it, never with only some of the changes
\* of one message applied.
C5_SnapshotSeesWholeDeltas ==
    \A p \in 1..Len(pub) :
        pub[p].pc = "write" => pub[p].snap \in getL3Snapshot(pub[p].of, PublishedLevels)
\* a snapshot taken between two deltas, showing both sides of the first
C5_Witness ==
    \E p \in 1..Len(pub) :
        /\ pub[p].pc = "write"
        /\ wrote.op = "applyDelta"
        /\ Len(pub[p].snap.Bids) = 1 /\ pub[p].snap.Bids[1].Orders = <<20, 10>>
        /\ Len(pub[p].snap.Asks) = 0
        /\ \E s \in 1..Len(sync) : sync[s].pc = "applying"

\* ------------------------------------- synchronizer and controller: claims
Syncs == 1..Len(sync)

\* C2: a synchronizer only ever writes the book it was started with, so no
\* delta read by the previous symbol's synchronizer, before or after its
\* cancel signal was raised, mutates the new Book installed by switchSymbol.
C2_OldSyncNeverWritesNewBook ==
    wrote.op # "none" =>
        /\ wrote.book = wrote.sync
        /\ books[wrote.book].symbol = sync[wrote.sync].symbol
        /\ (wrote.book = app.book => sync[wrote.sync].symbol = app.currentSymbol)
\* after a switch the old synchronizer has applied a delta although its
\* cancel signal had been raised, and the new Book has been loaded
C2_Witness ==
    /\ Len(books) >= 2
    /\ app.book = 2
    /\ hist[2].loads # "none"
    /\ wrote = [sync |-> 1, book |-> 1, op |-> "applyDelta", late |-> TRUE]

\* C3: the cancel signal is level-triggered: once raised, every check the
\* synchronizer makes (loop head, snapshot loop, read loop) finds it raised.
C3_CancelLevelTriggered ==
    \A s \in Syncs :
        (Raised(s) /\ sync[s].pc \in {"loop", "snap", "live"}) => CancelPending(s)

\* C4: a synchronizer that has observed its cancel signal has closed its
\* WebSocket and never dials, fetches a snapshot or applies a delta again.
C4_CancelledIsTerminal ==
    \A s \in Syncs :
        Observed(s) => /\ ~sync[s].wsOpen
                       /\ sync[s].pc \notin {"snap", "load", "live", "apply"}

\* C6 as stated: over the life of a Book loadSnapshot is called on it exactly
\* once, before any applyDelta; a reconnect does not reload it.
C6_LoadedExactlyOnce ==
    \A b \in 1..Len(books) : hist[b].loads # "again" /\ hist[b].firstOp # "delta"

\* C6 as amended: on every connection loadSnapshot is called on the Book
\* exactly once, before any applyDelta of that connection, so the first call
\* on a Book is a loadSnapshot; a reconnect loads the same Book again.
C6_LoadedOncePerConnection ==
    /\ \A s \in Syncs :
        /\ sync[s].pc \in {"snap", "load"} => sync[s].wsOpen /\ sync[s].connLoads = 0
        /\ sync[s].pc \in {"live", "apply"} => sync[s].wsOpen /\ sync[s].connLoads = 1
    /\ \A b \in 1..Len(books) : hist[b].firstOp # "delta"
    /\ wrote.op = "applyDelta" => hist[wrote.book].loads # "none"
\* a Book loaded a second time after a reconnect, then changed by a delta
C6_Witness ==
    /\ hist[1].loads = "again"
    /\ wrote.op = "applyDelta" /\ wrote.book = 1
    /\ sync[1].connLoads = 1

\* ------------------------------------ engine: raise, create, delete a level
\* C11: when a change raises the quantity of an existing level
\* (new_qty > old_sum), exactly one entry equal to new_qty - old_sum is
\* appended at the back of the queue; the existing entries keep their values
\* and positions and the new sum is new_qty.
C11_RaiseAppendsDiff ==
    (BidTouched /\ BidNewQty # 0 /\ BidNewQty > sum(BidOldQueue)) =>
        /\ BidPrice \in DOMAIN books[1].bids
        /\ Len(BidNewQueue) = Len(BidOldQueue) + 1
        /\ \A i \in 1..Len(BidOldQueue) : BidNewQueue[i] = BidOldQueue[i]
        /\ BidNewQueue[Len(BidNewQueue)] = BidNewQty - sum(BidOldQueue)
        /\ sum(BidNewQueue) = BidNewQty
\* a level of two different orders got a third one
C11_Witness ==
    /\ BidTouched /\ BidNewQty > sum(BidOldQueue)
    /\ Len(BidOldQueue) = 2
    /\ BidOldQueue[1] # BidOldQueue[2]
    /\ Len(BidNewQueue) = 3
    /\ BidNewQueue[3] # BidOldQueue[2]

\* the last call was an applyDelta whose single bid change parsed and named
\* a level that was absent
BidAbsent ==
    /\ last.op = "applyDelta"
    /\ Len(last.B) = 1
    /\ Len(last.B[1]) = 2
    /\ ~NewFromString(last.B[1][2]).err
    /\ last.B[1][1] \notin DOMAIN last.pre.bids

\* C12: a change with a non-zero quantity for a price that is absent on that
\* side creates the level with a queue of exactly one entry, new_qty.
C12_AbsentLevelCreated ==
    (BidAbsent /\ BidNewQty # 0) =>
        /\ DOMAIN books[1].bids = DOMAIN last.pre.bids \cup {BidPrice}
        /\ books[1].bids[BidPrice] = <<BidNewQty>>
        /\ \A p \in DOMAIN last.pre.bids : books[1].bids[p] = last.pre.bids[p]
\* the level was created by a delta that followed a snapshot and a removal
C12_Witness ==
    /\ BidAbsent /\ BidNewQty # 0
    /\ last.pre.lastID > 0
    /\ BidPrice \in DOMAIN books[1].bids
    /\ BidNewQueue = <<BidNewQty>>

\* the single change of a side of the last applyDelta had quantity zero
ZeroChange(changes) ==
    /\ last.op = "applyDelta"
    /\ Len(changes) = 1
    /\ Len(changes[1]) = 2
    /\ ~NewFromString(changes[1][2]).err
    /\ NewFromString(changes[1][2]).val = 0
\* the level is gone from the side and the rest of the side is as it was
LevelDeleted(pre, post, price) ==
    /\ DOMAIN post = (DOMAIN pre) \ {price}
    /\ \A p \in DOMAIN post : post[p] = pre[p]

\* C13: a change with quantity zero removes the whole level at that price
\* from that side whatever its queue held; if the level is absent the side
\* is unchanged, and the book is unchanged when the message holds nothing
\* else.
C13_ZeroDeletesLevel ==
    /\ ZeroChange(last.B) => LevelDeleted(last.pre.bids, books[1].bids, last.B[1][1])
    /\ ZeroChange(last.A) => LevelDeleted(last.pre.asks, books[1].asks, last.A[1][1])
    /\ (ZeroChange(last.B) /\ last.B[1][1] \notin DOMAIN last.pre.bids /\ last.A = <<>>) =>
            books[1] = last.pre
    /\ (ZeroChange(last.A) /\ last.A[1][1] \notin DOMAIN last.pre.asks /\ last.B = <<>>) =>
            books[1] = last.pre
\* a level of several orders was removed by a zero quantity
C13_Witness ==
    /\ ZeroChange(last.B)
    /\ last.B[1][1] \in DOMAIN last.pre.bids
    /\ Len(last.pre.bids[last.B[1][1]]) >= 2
    /\ last.B[1][1] \notin DOMAIN books[1].bids
\* a zero quantity named a level that was absent
C13_WitnessAbsent ==
    /\ ZeroChange(last.B)
    /\ last.B[1][1] \notin DOMAIN last.pre.bids
    /\ last.A = <<>>
    /\ last.pre.lastID > 0

\* --------------------------------------------- engine: negative quantities
\* deltas of a feed that may carry a quantity with a minus sign
NegativeBidQtys == {S_2, S_3, S_neg1}
NegativeAskQtys == {S_0, S_2, S_neg1}
NegativeDeltas ==
    {Unmarshal([U |-> 0, u |-> id, b |-> bs[1], a |-> bs[2]]) :
        id \in 1..MaxID,
        bs \in ChangeLists(Changes(EnginePrices, NegativeBidQtys),
                           Changes(EnginePrices, NegativeAskQtys))}

NextNegative == \E update \in NegativeDeltas : ApplyDeltaCall(update)

SpecNegative == InitEngine /\ [][NextNegative]_vars

\* the single change of a side of the last applyDelta parsed as a negative
\* number
NegativeChange(changes) ==
    /\ last.op = "applyDelta"
    /\ Len(changes) = 1
    /\ Len(changes[1]) = 2
    /\ ~NewFromString(changes[1][2]).err
    /\ NewFromString(changes[1][2]).val < 0

\* C14: a change whose quantity parses as a negative number is skipped and
\* leaves its side of the book as it was, so no queue ever holds a negative
\* entry and none is emptied by it.
C14_NegativeRejected ==
    /\ NegativeChange(last.B) => books[1].bids = last.pre.bids
    /\ NegativeChange(last.A) => books[1].asks = last.pre.asks
    /\ \A side \in Sides(books[1]) : \A p \in DOMAIN side :
          /\ ~isEmpty(side[p])
          /\ \A i \in 1..Len(side[p]) : side[p][i] > 0

\* ------------------------------------------- engine: batches with bad changes
\* most changes of one side of a message
MaxChanges == 3
BatchBidChanges == Changes(EnginePrices, {S_2, S_3, S_bad})
BatchAskChanges == Changes(EnginePrices, {S_2}) \cup {<<S_10>>}
SeqsUpTo(S, n) == UNION {[1..k -> S] : k \in 0..n}
BatchDeltas ==
    {Unmarshal([U |-> 0, u |-> 1, b |-> bs, a |-> as]) :
        bs \in SeqsUpTo(BatchBidChanges, MaxChanges), as \in AtMostOne(BatchAskChanges)}

NextBatch == \E update \in BatchDeltas : ApplyDeltaCall(update)

SpecBatch == InitEngine /\ [][NextBatch]_vars

\* a change applyDelta cannot use: fewer than two fields, or a quantity that
\* does not parse
BadChange(change) == Len(change) < 2 \/ NewFromString(change[2]).err
GoodOnly(changes) == SelectSeq(changes, LAMBDA c : ~BadChange(c))

\* C15: a change whose quantity fails to parse, or that has fewer than two
\* fields, is skipped without touching the book, and the other changes of
\* the message, before and after it and on both sides, are applied as if
\* the bad change were not in the message.
C15_BadChangeSkipped ==
    last.op = "applyDelta" =>
        /\ books[1] = applyDelta(last.pre, [U |-> last.id, u |-> 0,
                                            B |-> GoodOnly(last.B), A |-> GoodOnly(last.A)])
        /\ (GoodOnly(last.B) = <<>> /\ GoodOnly(last.A) = <<>>) => books[1] = last.pre
\* a bad bid change stood between two good ones that both changed the level,
\* next to a bad ask change
C15_Witness ==
    /\ last.op = "applyDelta"
    /\ Len(last.B) = 3
    /\ ~BadChange(last.B[1]) /\ BadChange(last.B[2]) /\ ~BadChange(last.B[3])
    /\ last.B[1] # last.B[3]
    /\ Len(last.A) = 1 /\ BadChange(last.A[1])
    /\ S_10 \in DOMAIN last.pre.bids
    /\ books[1].bids # last.pre.bids
    /\ books[1].bids # applyChanges(last.pre.bids, <<last.B[1]>>)

\* ------------------------------------------------- engine: loadSnapshot
\* a snapshot level loadSnapshot keeps: two fields, a quantity that parses
\* and is not zero
Kept(level) ==
    Len(level) >= 2 /\ ~NewFromString(level[2]).err /\ NewFromString(level[2]).val # 0
\* the side holds exactly the kept levels, each as one order of the quantity
\* of the last kept level of its price
SideIsSnapshot(side, levels) ==
    /\ DOMAIN side = {levels[i][1] : i \in {j \in 1..Len(levels) : Kept(levels[j])}}
    /\ \A p \in DOMAIN side :
          LET hits == {i \in 1..Len(levels) : Kept(levels[i]) /\ levels[i][1] = p}
              i == CHOOSE i \in hits : \A j \in hits : j <= i
          IN  side[p] = <<NewFromString(levels[i][2]).val>>

\* C16: after loadSnapshot the book holds exactly the snapshot levels whose
\* quantity parses and is non-zero, the levels it held before are gone,
\* every level is a queue of one entry equal to the snapshot quantity, and
\* lastID is the snapshot's lastUpdateId.
C16_SnapshotReplacesBook ==
    last.op = "loadSnapshot" =>
        /\ SideIsSnapshot(books[1].bids, last.B)
        /\ SideIsSnapshot(books[1].asks, last.A)
        /\ books[1].lastID = last.id
\* a snapshot with a zero bid and a good ask was loaded over a bid level of
\* several orders
C16_Witness ==
    /\ last.op = "loadSnapshot"
    /\ \E p \in DOMAIN last.pre.bids : Len(last.pre.bids[p]) >= 2
    /\ Len(last.B) = 1 /\ ~Kept(last.B[1])
    /\ DOMAIN books[1].bids = {}
    /\ DOMAIN books[1].asks # {}
    /\ last.pre.lastID # last.id

\* C17: loadSnapshot is idempotent: a loadSnapshot of the snapshot that the
\* call before it loaded leaves the book (both side maps and lastID) as it
\* was, whatever the book held before the first of the two.
C17_LoadIdempotent ==
    [][(/\ last.op = "loadSnapshot"
        /\ last'.op = "loadSnapshot"
        /\ last'.id = last.id /\ last'.B = last.B /\ last'.A = last.A)
       => books' = books]_vars
\* the second of two loads of one snapshot: the book was already what the
\* load makes of it
C17_Witness ==
    /\ last.op = "loadSnapshot"
    /\ last.pre = books[1]
    /\ last.pre = loadSnapshot(NewL3OrderBook(ethusdt),
                               [LastUpdateID |-> last.id, Bids |-> last.B, Asks |-> last.A])
    /\ DOMAIN books[1].bids # {}

\* ------------------------------------------------ engine: getL3Snapshot
\* largest topLevels a caller asks for
MaxTop == 3
\* price keys of the feed: "10" and "10.0" are two keys of one decimal, "9"
\* sorts after "10" as a string, "x" does not parse
SnapshotBidChanges == Changes({S_9, S_10, S_10p0, S_bad}, {S_0, S_2}) \cup {<<S_10, S_3>>}
SnapshotAskChanges == Changes({S_9, S_10, S_10p0}, {S_0, S_2})
SnapshotDeltas ==
    {Unmarshal([U |-> 0, u |-> 1, b |-> <<c>>, a |-> <<>>]) : c \in SnapshotBidChanges} \cup
    {Unmarshal([U |-> 0, u |-> 1, b |-> <<>>, a |-> <<c>>]) : c \in SnapshotAskChanges}

\* a call of getL3Snapshot on the book; the value returned is kept in last.ret
GetL3SnapshotCall(topLevels) ==
    /\ \E snap \in getL3Snapshot(books[1], topLevels) :
          last' = [op |-> "getL3Snapshot", id |-> topLevels, B |-> <<>>, A |-> <<>>,
                   pre |-> books[1], ret |-> snap]
    /\ UNCHANGED <<books, valid, pm>>
    /\ UNCHANGED sysVars

NextSnapshot ==
    \/ \E update \in SnapshotDeltas : ApplyDeltaCall(update)
    \/ \E topLevels \in 0..MaxTop : GetL3SnapshotCall(topLevels)

SpecSnapshot == InitEngine /\ [][NextSnapshot]_vars

Returned == last.op = "getL3Snapshot"
\* the keys of a side name pairwise different decimals
Canonical(side) ==
    \A p, q \in DOMAIN side : p # q => PriceValue(p) # PriceValue(q)

\* C18 as stated: in every snapshot the bids are strictly decreasing and the
\* asks strictly increasing by decimal price, no two entries of a side have
\* the same price, and each side has at most N entries.
C18_StrictlySorted ==
    Returned =>
        /\ \A i, j \in 1..Len(last.ret.Bids) : i < j => last.ret.Bids[i].Price > last.ret.Bids[j].Price
        /\ \A i, j \in 1..Len(last.ret.Asks) : i < j => last.ret.Asks[i].Price < last.ret.Asks[j].Price
        /\ Len(last.ret.Bids) <= last.id
        /\ Len(last.ret.Asks) <= last.id

\* C18: in every snapshot the bids never increase and the asks never
\* decrease by decimal price (the value of the key, not the string), each
\* side has at most N entries, and a side whose keys name pairwise different
\* decimals is strictly sorted.
C18_SortedByDecimal ==
    Returned =>
        /\ \A i, j \in 1..Len(last.ret.Bids) : i < j => last.ret.Bids[i].Price >= last.ret.Bids[j].Price
        /\ \A i, j \in 1..Len(last.ret.Asks) : i < j => last.ret.Asks[i].Price <= last.ret.Asks[j].Price
        /\ Len(last.ret.Bids) <= last.id
        /\ Len(last.ret.Asks) <= last.id
        /\ Canonical(last.pre.bids) =>
              \A i, j \in 1..Len(last.ret.Bids) : i < j => last.ret.Bids[i].Price > last.ret.Bids[j].Price
        /\ Canonical(last.pre.asks) =>
              \A i, j \in 1..Len(last.ret.Asks) : i < j => last.ret.Asks[i].Price < last.ret.Asks[j].Price
\* a snapshot of canonical sides, cut by N, with the keys "10" and "9" on
\* both of them
C18_Witness ==
    /\ Returned
    /\ Canonical(last.pre.bids) /\ Canonical(last.pre.asks)
    /\ {S_9, S_10} \subseteq DOMAIN last.pre.bids
    /\ {S_9, S_10} \subseteq DOMAIN last.pre.asks
    /\ Cardinality(DOMAIN last.pre.bids) > last.id
    /\ Len(last.ret.Bids) = 2 /\ Len(last.ret.Asks) = 2

\* the levels of a snapshot side are those of the keys ks, in that order
LevelsOfKeys(levels, side, ks) ==
    /\ Len(levels) = Len(ks)
    /\ \A k \in 1..Len(ks) :
          /\ levels[k].Price = PriceValue(ks[k])
          /\ levels[k].TotalSize = sum(side[ks[k]])
          /\ levels[k].OrderCount = Len(side[ks[k]])
\* the first n = min(N, size) levels of a side are its best ones: they are
\* the levels of n different keys, and no key left out is better than one
\* taken
BestLevels(levels, side, topLevels, descending) ==
    LET n == min(topLevels, Cardinality(DOMAIN side)) IN
    /\ Len(levels) = n
    /\ \E ks \in [1..n -> DOMAIN side] :
          /\ \A i, j \in 1..n : i # j => ks[i] # ks[j]
          /\ LevelsOfKeys(levels, side, ks)
          /\ \A p \in (DOMAIN side) \ {ks[i] : i \in 1..n} :
                \A i \in 1..n : ~less(p, ks[i], descending)

\* C19: getL3Snapshot(N) returns on each side exactly min(N, number of
\* levels of the side) entries, and they are the best ones: the N highest
\* priced bid levels and the N lowest priced ask levels of the book.
C19_BestLevels ==
    Returned =>
        /\ BestLevels(last.ret.Bids, last.pre.bids, last.id, TRUE)
        /\ BestLevels(last.ret.Asks, last.pre.asks, last.id, FALSE)
\* N cut both sides: some bid and some ask level of the book is left out
C19_Witness ==
    /\ Returned
    /\ last.id >= 1
    /\ Cardinality(DOMAIN last.pre.bids) > last.id
    /\ Cardinality(DOMAIN last.pre.asks) > last.id
    /\ Len(last.ret.Bids) = last.id
    /\ Len(last.ret.Asks) = last.id
    /\ last.ret.Bids[1].Price > last.ret.Asks[1].Price
\* N is larger than a side: the side is returned whole
C19_WitnessWhole ==
    /\ Returned
    /\ Cardinality(DOMAIN last.pre.bids) = 2
    /\ last.id > 2
    /\ Len(last.ret.Bids) = 2

\* the orders list of a level is a queue of the side at the level's price
QueueOfSide(level, side) ==
    \E p \in DOMAIN side : PriceValue(p) = level.Price /\ side[p] = level.Orders

\* C20: for every level of a snapshot that carries an orders list,
\* order_count is the length of the list, total_size the sum of its entries,
\* and the list is the level's queue, oldest order first.
C20_OrdersMatchLevel ==
    Returned =>
        /\ \A k \in 1..Len(last.ret.Bids) : last.ret.Bids[k].HasOrders =>
              /\ last.ret.Bids[k].OrderCount = Len(last.ret.Bids[k].Orders)
              /\ last.ret.Bids[k].TotalSize = sum(last.ret.Bids[k].Orders)
              /\ QueueOfSide(last.ret.Bids[k], last.pre.bids)
        /\ \A k \in 1..Len(last.ret.Asks) : last.ret.Asks[k].HasOrders =>
              /\ last.ret.Asks[k].OrderCount = Len(last.ret.Asks[k].Orders)
              /\ last.ret.Asks[k].TotalSize = sum(last.ret.Asks[k].Orders)
              /\ QueueOfSide(last.ret.Asks[k], last.pre.asks)
\* a returned level lists two orders of different size
C20_Witness ==
    /\ Returned
    /\ \E k \in 1..Len(last.ret.Bids) :
          /\ last.ret.Bids[k].HasOrders
          /\ Len(last.ret.Bids[k].Orders) = 2
          /\ last.ret.Bids[k].Orders[1] # last.ret.Bids[k].Orders[2]
    /\ Len(last.ret.Asks) >= 1

\* ------------------------------------------- engine: books of many levels
\* most levels a side of a snapshot of the exchange carries
MaxLevels == 12
\* the decimal string of a price below 100
IntString(n) ==
    IF n < 10 THEN <<DigitChars[n + 1]>>
    ELSE <<DigitChars[(n \div 10) + 1], DigitChars[(n % 10) + 1]>>
\* snapshots of k bid levels at the prices 1..k and of no ask or of k ask
\* levels at the prices 21..20+k
DeepSnapshots ==
    UNION {{[LastUpdateID |-> 1,
             Bids |-> [i \in 1..k |-> <<IntString(i), S_2>>],
             Asks |-> [i \in 1..j |-> <<IntString(20 + i), S_3>>]] : j \in {0, k}} :
                k \in 0..MaxLevels}
\* the topLevels a caller asks for: around TopOrders, and the publisher's
DeepTops == {TopOrders - 1, TopOrders, TopOrders + 1, PublishedLevels}

NextDeep ==
    \/ \E resp \in DeepSnapshots : LoadSnapshotCall(resp)
    \/ \E topLevels \in DeepTops : GetL3SnapshotCall(topLevels)

SpecDeep == InitEngine /\ [][NextDeep]_vars

\* `json:"orders,omitempty"`: the encoded level has an orders member unless
\* the slice is nil or empty
OrdersPresent(level) == Len(level.Orders) > 0

\* the levels of a snapshot side against the sorted keys of the book's side:
\* total_size and order_count at every position, the orders list at the
\* first TopOrders positions only
OrdersOnTop(levels, side, descending) ==
    LET ks == CHOOSE f \in SortSlice(DOMAIN side, descending) : TRUE IN
    \A k \in 1..Len(levels) :
        /\ levels[k].TotalSize = sum(side[ks[k]])
        /\ levels[k].OrderCount = Len(side[ks[k]])
        /\ k <= TopOrders => OrdersPresent(levels[k]) /\ levels[k].Orders = side[ks[k]]
        /\ k > TopOrders => ~OrdersPresent(levels[k])

\* C21: in every snapshot the orders list is present for exactly the first
\* 10 entries of each side and absent from position 10 on, while total_size
\* and order_count are reported for every entry.
C21_OrdersOnFirstTen ==
    Returned =>
        /\ OrdersOnTop(last.ret.Bids, last.pre.bids, TRUE)
        /\ OrdersOnTop(last.ret.Asks, last.pre.asks, FALSE)
\* both sides of a snapshot have an entry past the tenth
C21_Witness ==
    /\ Returned
    /\ Len(last.ret.Bids) > TopOrders + 1
    /\ Len(last.ret.Asks) > TopOrders + 1
    /\ OrdersPresent(last.ret.Bids[TopOrders])
    /\ ~OrdersPresent(last.ret.Bids[TopOrders + 1])
    /\ last.ret.Asks[TopOrders + 1].TotalSize > 0

\* ------------------------------------------ the controller: its responses
ToUpperChar(c) ==
    IF \E i \in 1..Len(LowerChars) : LowerChars[i] = c
    THEN UpperChars[CHOOSE i \in 1..Len(LowerChars) : LowerChars[i] = c]
    ELSE c
\* strings.ToUpper
ToUpper(str) == [i \in 1..Len(str) |-> ToUpperChar(str[i])]

\* the error switchSymbol returns: both of its returns are `return nil`
switchSymbolError(newSymbol) == FALSE

\* what the command goroutine writes on the connection after switchSymbol
Response(newSymbol) ==
    IF switchSymbolError(newSymbol)
    THEN [type |-> "error", symbol |-> <<>>, message |-> "err.Error()"]
    ELSE [type |-> "symbol_switched", symbol |-> ToUpper(newSymbol), message |-> ""]

\* wsHandler: one turn of the command goroutine, from conn.ReadJSON to the
\* end of the loop body; last keeps the message, the appState it met and the
\* responses written
HandleCommand(msg) ==
    /\ CanLock(appMu)
    /\ IF msg.Type = "switch_symbol" /\ msg.Symbol # <<>>
       THEN /\ switchSymbol(ToLower(msg.Symbol))
            /\ last' = [op |-> "command", msg |-> msg, pre |-> app,
                        ret |-> <<Response(ToLower(msg.Symbol))>>]
       ELSE /\ UNCHANGED <<books, app, chans, sync, hist, bookMu>>
            /\ last' = [op |-> "command", msg |-> msg, pre |-> app, ret |-> <<>>]
    /\ UNCHANGED <<wrote, valid, pm, appMu, pub>>

\* the feed while commands are handled: a message that raises the bid, or a
\* read timeout
QuietOutcomes ==
    {[kind |-> "timeout", wire |-> NoWire], [kind |-> "message", wire |-> RaiseBid]}

NextCommand ==
    \/ \E s \in 1..Len(sync) : SyncLoopHead(s)
    \/ \E s \in 1..Len(sync) : SyncBackoff(s)
    \/ \E s \in 1..Len(sync) : SyncSnapshot(s)
    \/ \E s \in 1..Len(sync) : SyncLoad(s)
    \/ \E s \in 1..Len(sync) : SyncLive(s, QuietOutcomes)
    \/ \E s \in 1..Len(sync) : SyncApply(s)
    \/ \E msg \in Commands : HandleCommand(msg)

SpecCommand == Init /\ [][NextCommand]_vars

\* a switch_symbol command naming the current symbol, in any case
SameSymbol(msg) ==
    /\ msg.Type = "switch_symbol"
    /\ msg.Symbol # <<>>
    /\ ToLower(msg.Symbol) = ToLower(app.currentSymbol)

\* C22: switch_symbol with a symbol equal, case-insensitively, to the current
\* one is a no-op: the cancel signal is not raised, the current Book and its
\* queues are kept, no synchronizer is started and the running one goes on.
C22_SameSymbolNoOp ==
    [][\A msg \in Commands :
          (SameSymbol(msg) /\ HandleCommand(msg)) =>
              UNCHANGED <<books, app, chans, sync, hist, bookMu, wrote>>]_vars
\* the current symbol was named in upper case while its synchronizer was
\* live on a Book with a queue of two orders
C22_Witness ==
    /\ last.op = "command"
    /\ last.msg = [Type |-> "switch_symbol", Symbol |-> ETHUSDT]
    /\ last.pre = app
    /\ app.currentSymbol = ethusdt
    /\ Len(books) = 1 /\ Len(sync) = 1
    /\ chans[1] = 0 /\ ~hist[1].raised
    /\ sync[1].pc = "live"
    /\ S_10 \in DOMAIN books[1].bids /\ Len(books[1].bids[S_10]) = 2

\* C23: every switch_symbol command is answered with exactly one response:
\* symbol_switched carrying the symbol, or error carrying a message.
C23_OneResponse ==
    (last.op = "command" /\ last.msg.Type = "switch_symbol") =>
        /\ Len(last.ret) = 1
        /\ \/ /\ last.ret[1].type = "symbol_switched"
              /\ last.ret[1].symbol = ToUpper(ToLower(last.msg.Symbol))
           \/ /\ last.ret[1].type = "error"
              /\ last.ret[1].message # ""

\* --------------------------------------------- engine: unparsable prices
\* the keys of a side whose string parses as a decimal
Parsable(side) == {p \in DOMAIN side : ~NewFromString(p).err}

\* C24: a change whose price string does not parse as a decimal is skipped:
\* it creates no level in the side map and no entry of a snapshot stems from
\* it.
C24_BadPriceSkipped ==
    /\ \A side \in Sides(books[1]) : Parsable(side) = DOMAIN side
    /\ (last.op = "applyDelta" /\ Len(last.B) = 1 /\ NewFromString(last.B[1][1]).err) =>
            books[1].bids = last.pre.bids
    /\ Returned =>
            /\ Len(last.ret.Bids) <= Cardinality(Parsable(last.pre.bids))
            /\ Len(last.ret.Asks) <= Cardinality(Parsable(last.pre.asks))

\* ------------------------------------- the controller: one writer a Book
\* the synchronizers started with the Controller's current Book
Holders == {s \in Syncs : sync[s].book = app.book}
\* exactly one synchronizer holds the current Book; it is running, listens
\* on the current cancel channel, which is empty and was never sent on, and
\* a write to the current Book is a write of that synchronizer
OneHolder ==
    /\ Cardinality(Holders) = 1
    /\ \A s \in Holders :
          /\ sync[s].pc # "returned"
          /\ sync[s].cancel = app.binanceCancel
          /\ sync[s].symbol = app.currentSymbol
          /\ ~Raised(s) /\ ~CancelPending(s)
    /\ (wrote.op # "none" /\ wrote.book = app.book) => wrote.sync \in Holders
\* a step that changes appState installs a fresh empty Book for another
\* symbol, a fresh empty cancel channel and one new synchronizer on them
FreshInstall ==
    app' # app =>
        /\ app'.currentSymbol # app.currentSymbol
        /\ Len(books') = Len(books) + 1
        /\ app'.book = Len(books')
        /\ books'[app'.book] = NewL3OrderBook(app'.currentSymbol)
        /\ Len(chans') = Len(chans) + 1
        /\ app'.binanceCancel = Len(chans')
        /\ chans'[app'.binanceCancel] = 0
        /\ Len(sync') = Len(sync) + 1
        /\ sync'[Len(sync')] = NewSync(app'.currentSymbol, app'.book, app'.binanceCancel)
        /\ \A s \in Syncs : sync'[s] = sync[s]

\* C25: at start-up and after any sequence of switch_symbol commands exactly
\* one synchronizer holds the Controller's current Book and is the only task
\* that writes to it; every switch to another symbol installs a fresh empty
\* Book, a fresh un-raised cancel signal and one new synchronizer.
C25_OneSyncPerCurrentBook == []OneHolder /\ [][FreshInstall]_vars
\* after a switch both synchronizers are live and the new one has written
\* the new Book
C25_Witness ==
    /\ Len(books) = 2 /\ app.book = 2
    /\ wrote = [sync |-> 2, book |-> 2, op |-> "applyDelta", late |-> FALSE]
    /\ sync[1].pc = "live" /\ sync[2].pc = "live"
    /\ hist[1].raised

\* ------------------------------------------ the read loop, turn by turn
\* a read loop that treats a timeout like any other read error
SyncReadTimeoutFails(s) ==
    /\ sync[s].pc = "live"
    /\ IF CancelPending(s)
       THEN /\ Receive(s)
            /\ sync' = [sync EXCEPT ![s] = ReturnError(@)]
            /\ last' = [op |-> "read", sync |-> s, kind |-> "cancelled",
                        pre |-> sync[s], book |-> books[SyncBook(s)]]
       ELSE /\ \E r \in ReadOutcomes \cup TwoSidedOutcomes :
                 /\ sync' = IF r.kind \in {"closeError", "error", "timeout"}
                            THEN [sync EXCEPT ![s] = ReturnError(@)]
                            ELSE IF r.kind = "message"
                            THEN [sync EXCEPT ![s].pc = "apply", ![s].upd = Unmarshal(r.wire)]
                            ELSE sync
                 /\ last' = [op |-> "read", sync |-> s, kind |-> r.kind,
                             pre |-> sync[s], book |-> books[SyncBook(s)]]
            /\ UNCHANGED chans
    /\ UNCHANGED <<books, app, hist, wrote, valid, pm, lockVars>>

\* connectAndSync: one turn of the read loop, up to the decoded update; last
\* keeps what the read returned, the synchronizer and its Book as the turn
\* met them
SyncRead(s) ==
    /\ sync[s].pc = "live"
    /\ IF CancelPending(s)
       THEN /\ Receive(s)
            /\ sync' = [sync EXCEPT ![s] = ReturnError(@)]
            /\ last' = [op |-> "read", sync |-> s, kind |-> "cancelled",
                        pre |-> sync[s], book |-> books[SyncBook(s)]]
       ELSE /\ \E r \in ReadOutcomes \cup TwoSidedOutcomes :
                 /\ sync' = IF r.kind \in {"closeError", "error"}
                            THEN [sync EXCEPT ![s] = ReturnError(@)]
                            ELSE IF r.kind = "message"
                            THEN [sync EXCEPT ![s].pc = "apply", ![s].upd = Unmarshal(r.wire)]
                            ELSE sync
                 /\ last' = [op |-> "read", sync |-> s, kind |-> r.kind,
                             pre |-> sync[s], book |-> books[SyncBook(s)]]
            /\ UNCHANGED chans
    /\ UNCHANGED <<books, app, hist, wrote, valid, pm, lockVars>>

\* the synchronizer started by main, with no command from a subscriber
NextRead ==
    \/ \E s \in 1..Len(sync) : SyncLoopHead(s)
    \/ \E s \in 1..Len(sync) : SyncBackoff(s)
    \/ \E s \in 1..Len(sync) : SyncSnapshot(s)
    \/ \E s \in 1..Len(sync) : SyncLoad(s)
    \/ \E s \in 1..Len(sync) : SyncRead(s)
    \/ \E s \in 1..Len(sync) : SyncApply(s)

SpecRead == Init /\ [][NextRead]_vars

\* the step is a turn of the read loop of s whose read timed out
\* (only a turn of the read loop writes last; a turn that writes what last
\* already holds has changed nothing at all)
TimedOut(s) ==
    /\ last' # last
    /\ last'.op = "read" /\ last'.sync = s /\ last'.kind = "timeout"

\* C26: a read timeout in Live does not leave Live: the connection stays
\* open, no snapshot is reloaded, the Book is unchanged, and the synchronizer
\* is back at the cancel check of the read loop.
C26_TimeoutStaysLive ==
    [][\A s \in Syncs : TimedOut(s) =>
            /\ sync'[s] = sync[s]
            /\ sync'[s].pc = "live" /\ sync'[s].wsOpen
            /\ books' = books /\ hist' = hist /\ chans' = chans /\ app' = app]_vars
\* the last read of a live synchronizer timed out and left it as it was, on
\* a Book of two orders
C26_Witness ==
    /\ last.op = "read" /\ last.kind = "timeout"
    /\ sync[last.sync] = last.pre
    /\ sync[last.sync].pc = "live" /\ sync[last.sync].wsOpen
    /\ books[SyncBook(last.sync)] = last.book
    /\ S_10 \in DOMAIN last.book.bids /\ Len(last.book.bids[S_10]) = 2
    /\ hist[SyncBook(last.sync)].loads = "once"

\* ------------------------------------------- the synchronizer: its retries
\* the dial is answered
DialSucceeds(s) == s \in Syncs /\ SyncLoopHead(s) /\ sync'[s].pc = "snap"
\* the REST request is answered with a snapshot that is accepted
SnapshotArrives(s) == s \in Syncs /\ SyncSnapshot(s) /\ sync'[s].pc = "load"
\* a goroutine that can run does run: the sleep of 5 s ends and loadSnapshot
\* is called; the upstream answers a dial and a snapshot request that are
\* made again and again
RetryFairness ==
    \A s \in 1..MaxBooks :
        /\ WF_vars(s \in Syncs /\ SyncBackoff(s))
        /\ WF_vars(s \in Syncs /\ SyncLoad(s))
        /\ SF_vars(DialSucceeds(s))
        /\ SF_vars(SnapshotArrives(s))

SpecRetry == Init /\ [][Next]_vars /\ RetryFairness

\* s is sleeping after an error of connectAndSync and its cancel signal has
\* not been raised
InBackoff(s) == s \in Syncs /\ sync[s].pc = "backoff" /\ ~Raised(s)
BackLive(s) == s \in Syncs /\ (sync[s].pc = "live" \/ Raised(s))
\* a step that takes a synchronizer into Backoff leaves appState, the Books
\* and, unless the step received the cancel signal, the channels alone
ErrorStaysLocal ==
    \A s \in Syncs :
        (sync[s].pc # "backoff" /\ sync'[s].pc = "backoff") =>
            /\ app' = app
            /\ books' = books
            /\ ~Raised(s) => chans' = chans

\* C27: after a dial error or a non-timeout WebSocket error, and as long as
\* the cancel signal is not raised, the synchronizer goes through Backoff,
\* dials again, refetches the snapshot and is Live again; the error never
\* reaches the Controller, whose appState stays as it was.
C27_RetryReturnsToLive ==
    /\ [][ErrorStaysLocal]_vars
    /\ \A s \in 1..MaxBooks : InBackoff(s) ~> BackLive(s)
\* the current synchronizer is live again on a connection made after an
\* error, with its signal not raised and appState as main left it
C27_Witness ==
    /\ hist[1].loads = "again"
    /\ sync[1].pc = "live" /\ sync[1].wsOpen
    /\ ~hist[1].raised
    /\ app = [book |-> 1, currentSymbol |-> ethusdt, binanceCancel |-> 1]

\* --------------------------------------- the synchronizer: Snapshotting
\* the bodies of the responses with status 200 that decoded without error
\* and carry a non-zero lastUpdateId
GoodBodies ==
    {o.body : o \in {x \in RestOutcomes :
                        ~x.err /\ x.status = 200 /\ ~x.decodeErr /\ x.body.LastUpdateID # 0}}
\* a synchronizer about to call loadSnapshot holds such a body, on an open
\* connection on which nothing was loaded yet; one that is live has loaded
\* exactly once on its connection
LoadsGoodBody ==
    \A s \in Syncs :
        /\ sync[s].pc = "load" =>
              /\ sync[s].resp \in GoodBodies
              /\ sync[s].wsOpen /\ sync[s].connLoads = 0
        /\ sync[s].pc \in {"live", "apply"} => sync[s].connLoads = 1
\* a step of a synchronizer in Snapshotting either accepts a good body, or
\* has received the cancel signal; it leaves the connection open and the
\* Books untouched unless it is cancelled; loadSnapshot gets the body held
SnapshottingStep ==
    \A s \in Syncs :
        /\ (sync[s].pc = "snap" /\ sync'[s] # sync[s]) =>
              /\ books' = books
              /\ \/ /\ sync'[s].pc = "load"
                    /\ sync'[s].resp \in GoodBodies
                    /\ sync'[s].wsOpen
                 \/ /\ CancelPending(s)
                    /\ sync'[s].pc = "backoff"
        /\ (sync[s].pc = "load" /\ sync'[s] # sync[s]) =>
              /\ sync'[s].pc = "live"
              /\ books'[SyncBook(s)] = loadSnapshot(books[SyncBook(s)], sync[s].resp)
        /\ (sync[s].pc # "apply" /\ sync'[s].pc = "apply") => sync[s].connLoads = 1

AppliesEveryDelta ==
    \A s \in Syncs :
        /\ (last' # last /\ last'.op = "read" /\ last'.sync = s /\ last'.kind = "message") =>
              /\ sync'[s].pc = "apply"
              /\ sync'[s].upd # NoUpdate
              /\ books' = books
        /\ (sync[s].pc = "apply" /\ sync'[s] # sync[s]) =>
              /\ sync'[s].pc = "live"
              /\ books'[SyncBook(s)].bids = applyChanges(books[SyncBook(s)].bids, sync[s].upd.B)
              /\ books'[SyncBook(s)].asks = applyChanges(books[SyncBook(s)].asks, sync[s].upd.A)

\* C29: in Live every decodable delta read from the WebSocket is applied to
\* the Book whatever its update ids: one whose u is not greater than the
\* snapshot's lastUpdateId is applied like any other, none is dropped or
\* buffered.
C29_EveryDeltaApplied == [][AppliesEveryDelta]_vars
\* a delta with u = 1 has removed an order from a Book loaded from the
\* snapshot with lastUpdateId 1
C29_Witness ==
    /\ last.op = "read" /\ last.kind = "message" /\ last.sync = 1
    /\ wrote.op = "applyDelta"
    /\ sync[1].pc = "live"
    /\ books[1].lastID = 1
    /\ last.book.bids[S_10] = <<20, 10>> /\ S_10 \notin DOMAIN last.book.asks
    /\ books[1].bids[S_10] = <<20>> /\ S_10 \notin DOMAIN books[1].asks

\* ------------------------------------------- engine: after a shortfall
\* successive deltas on one bid level; each call is recorded together with
\* the call before it
ShortfallQtys == {S_0, S_1, S_2, S_3, S_4, S_5}
ShortfallDeltas ==
    {Unmarshal([U |-> 0, u |-> id, b |-> <<<<p, q>>>>, a |-> <<>>]) :
        id \in 1..MaxID, p \in EnginePrices, q \in ShortfallQtys}

\* a call of applyDelta on the book, the call before it kept in the record
ApplyDeltaAfter(update) ==
    /\ books' = [books EXCEPT ![1] = applyDelta(@, update)]
    /\ last' = [op |-> "applyDelta", id |-> update.U,
                B |-> update.B, A |-> update.A, pre |-> books[1],
                before |-> [op |-> last.op, B |-> last.B, pre |-> last.pre]]
    /\ valid' = (valid /\ AllQtyValid(update.B, update.A))
    /\ UNCHANGED pm
    /\ UNCHANGED sysVars

NextShortfall == \E update \in ShortfallDeltas : ApplyDeltaAfter(update)

SpecShortfall == InitEngine /\ [][NextShortfall]_vars

\* the call before the last one was a change of a bid level to a non-zero
\* quantity that left the level with a sum other than that quantity, and the
\* last call was the next change of the same level, to a non-zero quantity
PrevQty == NewFromString(last.before.B[1][2]).val
AfterShortfall ==
    /\ last.op = "applyDelta" /\ last.before.op = "applyDelta"
    /\ Len(last.before.B) = 1 /\ Len(last.before.B[1]) = 2
    /\ ~NewFromString(last.before.B[1][2]).err
    /\ PrevQty # 0
    /\ BidTouched /\ BidNewQty # 0
    /\ last.before.B[1][1] = BidPrice
    /\ sum(BidOldQueue) # PrevQty
\* the last change does not itself fall short: it raises or keeps the sum,
\* or an order equals diff, or the largest order exceeds diff
Covered ==
    \/ BidDiff <= 0
    \/ BidHasExact
    \/ BidLargest > BidDiff

\* C30 as stated: if a change left sum(orders) different from its new_qty,
\* then after the next change to the same level with a non-zero quantity q
\* the sum of the queue is q.
C30_NextChangeCorrects ==
    AfterShortfall => sum(BidNewQueue) = BidNewQty

\* C30, amended: after a change that left sum(orders) different from its
\* new_qty, the next change to the same level with a non-zero quantity q
\* leaves the sum equal to q when q is not below the sum it finds, or an
\* order equals the difference, or the largest order exceeds the
\* difference; otherwise it falls short again: the largest order is removed
\* and the sum stays above q.
C30_CorrectsUnlessShortAgain ==
    AfterShortfall =>
        IF Covered
        THEN sum(BidNewQueue) = BidNewQty
        ELSE /\ BidNewQueue = RemoveAt(BidOldQueue, largestOrderIndex(BidOldQueue))
             /\ sum(BidNewQueue) > BidNewQty
\* the level [2, 2] was changed to 1 and kept [2]; the next change, to 1
\* again, finds the sum 2 and leaves [1]
C30_Witness ==
    /\ AfterShortfall
    /\ last.before.pre.bids[S_10] = <<2 * Pow10(FracDigits), 2 * Pow10(FracDigits)>>
    /\ last.before.B[1][2] = S_1
    /\ BidOldQueue = <<2 * Pow10(FracDigits)>>
    /\ last.B[1][2] = S_1
    /\ BidNewQueue = <<Pow10(FracDigits)>>
\* a second shortfall in a row
C30_WitnessShortAgain ==
    /\ AfterShortfall
    /\ ~Covered
    /\ sum(BidNewQueue) > BidNewQty

\* ------------------------------- engine: the latest quantity of a level
\* loadSnapshot and applyDelta calls with non-negative quantities, a side
\* carrying up to two entries, which may name the same price
AtMostTwo(C) == AtMostOne(C) \cup {<<c, d>> : c \in C, d \in C}
LatestLoadQtys == {S_0, S_1, S_2}
LatestBidQtys == {S_0, S_1, S_2, S_4}
LatestAskQtys == {S_0, S_2}
LatestSnapshots ==
    {[LastUpdateID |-> id, Bids |-> bs, Asks |-> as] :
        id \in {MaxID},
        bs \in AtMostTwo(Changes(EnginePrices, LatestLoadQtys)),
        as \in AtMostOne(Changes(EnginePrices, LatestLoadQtys))}
LatestDeltas ==
    {Unmarshal([U |-> 0, u |-> id, b |-> bs, a |-> as]) :
        id \in {MaxID},
        bs \in AtMostTwo(Changes(EnginePrices, LatestBidQtys)),
        as \in AtMostOne(Changes(EnginePrices, LatestAskQtys))}

\* updateQueue reaches its last branch: the level exists, newQty is below
\* the sum, no order equals diff and the largest order does not exceed diff
TookRemoveLargest(side, price, newQty) ==
    /\ price \in DOMAIN side
    /\ newQty < sum(side[price])
    /\ exactMatchIndex(side[price], sum(side[price]) - newQty) = 0
    /\ largestOrderIndex(side[price]) > 0
    /\ side[price][largestOrderIndex(side[price])] <= sum(side[price]) - newQty

\* the record of the quantities handed over, a price at a time: qty is the
\* quantity of the latest entry naming the price, short says whether that
\* entry took the remove-entire-largest branch of updateQueue
NoteEntry(seen, price, qty, short) == MapPut(seen, price, [qty |-> qty, short |-> short])

\* the entries of one applyDelta loop, side being the map each entry meets
RECURSIVE NoteChanges(_, _, _)
NoteChanges(seen, side, changes) ==
    IF Len(changes) = 0 THEN seen
    ELSE LET change == Head(changes)
             parsed == NewFromString(change[2])
             noted == IF Len(change) < 2 \/ parsed.err THEN seen
                      ELSE NoteEntry(seen, change[1], parsed.val,
                                     parsed.val # 0 /\ TookRemoveLargest(side, change[1], parsed.val))
         IN  NoteChanges(noted, applyChange(side, change), Tail(changes))

\* the entries of one loadSnapshot loop; withZero tells whether an entry of
\* quantity zero, which the loop skips, is recorded as the latest quantity
RECURSIVE NoteLevels(_, _, _)
NoteLevels(seen, levels, withZero) ==
    IF Len(levels) = 0 THEN seen
    ELSE LET level == Head(levels)
             parsed == NewFromString(level[2])
             noted == IF Len(level) < 2 \/ parsed.err \/ (parsed.val = 0 /\ ~withZero) THEN seen
                      ELSE NoteEntry(seen, level[1], parsed.val, FALSE)
         IN  NoteLevels(noted, Tail(levels), withZero)

NoSeen == [bids |-> EmptyMap, asks |-> EmptyMap]
SeenOf(r) == IF r.op = "none" THEN NoSeen ELSE r.seen
KeptOf(r) == IF r.op = "none" THEN NoSeen ELSE r.kept

\* a call of loadSnapshot on the book, the quantities it was handed recorded
LoadSnapshotNoted(resp) ==
    /\ books' = [books EXCEPT ![1] = loadSnapshot(@, resp)]
    /\ last' = [op |-> "loadSnapshot", id |-> resp.LastUpdateID,
                B |-> resp.Bids, A |-> resp.Asks,
                seen |-> [bids |-> NoteLevels(EmptyMap, resp.Bids, TRUE),
                          asks |-> NoteLevels(EmptyMap, resp.Asks, TRUE)],
                kept |-> [bids |-> NoteLevels(EmptyMap, resp.Bids, FALSE),
                          asks |-> NoteLevels(EmptyMap, resp.Asks, FALSE)]]
    /\ valid' = (valid /\ AllQtyValid(resp.Bids, resp.Asks))
    /\ UNCHANGED pm
    /\ UNCHANGED sysVars

\* a call of applyDelta on the book, the quantities it was handed recorded
ApplyDeltaNoted(update) ==
    /\ books' = [books EXCEPT ![1] = applyDelta(@, update)]
    /\ last' = [op |-> "applyDelta", id |-> update.U,
                B |-> update.B, A |-> update.A,
                seen |-> [bids |-> NoteChanges(SeenOf(last).bids, books[1].bids, update.B),
                          asks |-> NoteChanges(SeenOf(last).asks, books[1].asks, update.A)],
                kept |-> [bids |-> NoteChanges(KeptOf(last).bids, books[1].bids, update.B),
                          asks |-> NoteChanges(KeptOf(last).asks, books[1].asks, update.A)]]
    /\ valid' = (valid /\ AllQtyValid(update.B, update.A))
    /\ UNCHANGED pm
    /\ UNCHANGED sysVars

NextLatest ==
    \/ \E resp \in LatestSnapshots : LoadSnapshotNoted(resp)
    \/ \E update \in LatestDeltas : ApplyDeltaNoted(update)

SpecLatest == InitEngine /\ [][NextLatest]_vars

\* every level of the side map has a recorded latest quantity, its sum is at
\* least that quantity, and is above it only after the remove-entire-largest
\* branch
AtLeastLatest(side, seen) ==
    \A p \in DOMAIN side :
        /\ p \in DOMAIN seen
        /\ sum(side[p]) >= seen[p].qty
        /\ sum(side[p]) > seen[p].qty => seen[p].short

\* C31 as stated: with non-negative quantities, every level present has a sum
\* at least the quantity most recently loaded or broadcast for it, and above
\* it only if the latest change to the level took the remove-entire-largest
\* path.
C31_SumAtLeastLatest ==
    valid => /\ AtLeastLatest(books[1].bids, SeenOf(last).bids)
             /\ AtLeastLatest(books[1].asks, SeenOf(last).asks)

\* C31, amended: the same, a snapshot entry of quantity zero, which
\* loadSnapshot skips, not counting as a quantity loaded for the level.
C31_SumAtLeastLatestKept ==
    valid => /\ AtLeastLatest(books[1].bids, KeptOf(last).bids)
             /\ AtLeastLatest(books[1].asks, KeptOf(last).asks)
\* a level stands above its latest quantity after the remove-entire-largest
\* branch: the level changed to 1 keeps [2]
C31_Witness ==
    /\ valid /\ last.op = "applyDelta"
    /\ last.B = <<<<S_10, S_1>>>>
    /\ S_10 \in DOMAIN books[1].bids
    /\ books[1].bids[S_10] = <<2 * Pow10(FracDigits)>>
    /\ last.kept.bids[S_10] = [qty |-> Pow10(FracDigits), short |-> TRUE]
\* a level loaded from a snapshot stands at the quantity loaded
C31_WitnessLoaded ==
    /\ valid /\ last.op = "loadSnapshot"
    /\ S_10 \in DOMAIN books[1].bids
    /\ sum(books[1].bids[S_10]) = last.kept.bids[S_10].qty

\* --------------------------------------- engine: the effect of one change
\* deltas of one change, on either side, at two prices
ChangeBidChanges ==
    Changes({S_10}, {S_0, S_2, S_3, S_4, S_5, S_bad}) \cup Changes({S_9}, {S_0, S_2, S_3}) \cup {<<S_10>>}
ChangeAskChanges == Changes({S_10}, {S_0, S_2})
ChangeDeltas ==
    {Unmarshal([U |-> 0, u |-> 1, b |-> <<c>>, a |-> <<>>]) : c \in ChangeBidChanges} \cup
    {Unmarshal([U |-> 0, u |-> 1, b |-> <<>>, a |-> <<c>>]) : c \in ChangeAskChanges}

NextChange == \E update \in ChangeDeltas : ApplyDeltaCall(update)

SpecChange == InitEngine /\ [][NextChange]_vars

\* the last call was an applyDelta of one change
OneChange == last.op = "applyDelta" /\ Len(last.B) + Len(last.A) = 1
OnBids == Len(last.B) = 1
TheChange == IF OnBids THEN last.B[1] ELSE last.A[1]
OldSide == IF OnBids THEN last.pre.bids ELSE last.pre.asks
NewSide == IF OnBids THEN books[1].bids ELSE books[1].asks
ChangeUsable == Len(TheChange) >= 2 /\ ~NewFromString(TheChange[2]).err
ChangeQty == NewFromString(TheChange[2]).val
OldQueue == IF TheChange[1] \in DOMAIN OldSide THEN OldSide[TheChange[1]] ELSE <<>>
NewQueue == IF TheChange[1] \in DOMAIN NewSide THEN NewSide[TheChange[1]] ELSE <<>>

\* the other side, the symbol and the id are as before, and so is every
\* level at another price
FrameKept ==
    /\ (IF OnBids THEN books[1].asks = last.pre.asks ELSE books[1].bids = last.pre.bids)
    /\ books[1].symbol = last.pre.symbol
    /\ books[1].lastID = last.pre.lastID
    /\ Len(TheChange) >= 1 =>
          /\ DOMAIN NewSide \ {TheChange[1]} = DOMAIN OldSide \ {TheChange[1]}
          /\ \A p \in DOMAIN OldSide \ {TheChange[1]} : NewSide[p] = OldSide[p]
    /\ Len(TheChange) = 0 => NewSide = OldSide

\* the five effects on the touched queue
EffectNothing == NewSide = OldSide
EffectAppended ==
    /\ TheChange[1] \in DOMAIN NewSide
    /\ Len(NewQueue) = Len(OldQueue) + 1
    /\ SubSeq(NewQueue, 1, Len(OldQueue)) = OldQueue
EffectRemoved ==
    /\ TheChange[1] \in DOMAIN NewSide /\ TheChange[1] \in DOMAIN OldSide
    /\ \E i \in 1..Len(OldQueue) : NewQueue = RemoveAt(OldQueue, i)
EffectDecreased ==
    /\ TheChange[1] \in DOMAIN NewSide /\ TheChange[1] \in DOMAIN OldSide
    /\ Len(NewQueue) = Len(OldQueue)
    /\ \E i \in 1..Len(OldQueue) :
          /\ NewQueue[i] < OldQueue[i]
          /\ \A j \in 1..Len(OldQueue) : j # i => NewQueue[j] = OldQueue[j]
EffectDeleted ==
    /\ TheChange[1] \in DOMAIN OldSide /\ TheChange[1] \notin DOMAIN NewSide
Effects == <<EffectNothing, EffectAppended, EffectRemoved, EffectDecreased, EffectDeleted>>

\* C32: one change leaves the other side and every level at another price as
\* they were, and has exactly one of five effects on the touched queue:
\* nothing (the quantity is the old sum, or the change cannot be used), one
\* entry appended at the back, one entry removed, one entry decreased in
\* place, or the level deleted (quantity zero); the surviving entries keep
\* their order.
C32_OneChangeOneEffect ==
    OneChange =>
        /\ FrameKept
        /\ Cardinality({i \in 1..Len(Effects) : Effects[i]}) = 1
        /\ ~ChangeUsable => EffectNothing
        /\ ChangeUsable =>
              /\ EffectNothing <=> ChangeQty = sum(OldQueue)
              /\ EffectDeleted <=> (ChangeQty = 0 /\ TheChange[1] \in DOMAIN OldSide)
              /\ EffectAppended => ChangeQty > sum(OldQueue)
              /\ (EffectRemoved \/ EffectDecreased) => ChangeQty < sum(OldQueue)
\* the largest order of [2, 1, 2] is removed while a level at another price
\* and a level of the other side stay
C32_Witness ==
    /\ OneChange /\ OnBids /\ ChangeUsable
    /\ TheChange[1] = S_10
    /\ OldQueue = <<2 * Pow10(FracDigits), Pow10(FracDigits), 2 * Pow10(FracDigits)>>
    /\ NewQueue = <<Pow10(FracDigits), 2 * Pow10(FracDigits)>>
    /\ S_9 \in DOMAIN books[1].bids
    /\ S_10 \in DOMAIN books[1].asks
\* an order is decreased in place
C32_WitnessDecreased ==
    /\ OneChange /\ ChangeUsable /\ EffectDecreased
    /\ Len(OldQueue) >= 2 /\ NewQueue[1] < OldQueue[1]
\* an order is appended to a queue that had one
C32_WitnessAppended == OneChange /\ ChangeUsable /\ EffectAppended /\ Len(OldQueue) >= 1
\* a level is deleted
C32_WitnessDeleted == OneChange /\ ChangeUsable /\ EffectDeleted

\* ------------------------------ the tasks, lock operation by lock operation
\* Every subscriber connection has two tasks, the ticker loop (publisher) and
\* the command goroutine; every Book has its synchronizer.  A sync.RWMutex is
\* modelled with its announcement: Lock() first announces the writer, which
\* makes every later RLock() block, then waits for the read holders to
\* leave; Unlock() admits every blocked reader before the next writer.

\* the two tasks of a connection: pc is the position of the ticker loop,
\* cmd that of the command goroutine
NoMsg == [Type |-> "", Symbol |-> <<>>]
NewHandler ==
    [pc |-> "tick", book |-> 0, level |-> 0, snap |-> NoL3Snapshot,
     cmd |-> "read", msg |-> NoMsg]

\* the commands that reach switchSymbol
SwitchCommands == {[Type |-> "switch_symbol", Symbol |-> y] : y \in {ETHUSDT, BTCUSDT}}
\* the feed while the tasks run; the history kept for the claims on the
\* synchronizer (hist, wrote, the pre and connLoads fields) is left alone
TaskOutcomes ==
    {[kind |-> "timeout", wire |-> NoWire], [kind |-> "message", wire |-> RaiseBidDropAsk]}

InitTasks ==
    /\ books = <<NewL3OrderBook(ethusdt)>>
    /\ last = NoCall
    /\ valid = TRUE
    /\ app = [book |-> 1, currentSymbol |-> ethusdt, binanceCancel |-> 1]
    /\ chans = <<0>>
    /\ sync = <<NewSync(ethusdt, 1, 1)>>
    /\ hist = <<NewHist>>
    /\ wrote = NoWrite
    /\ appMu = Unlocked
    /\ bookMu = <<Unlocked>>
    /\ pub = [p \in 1..NumSubscribers |-> NewHandler]
    /\ pm = NewPrecisionManager

Handlers == DOMAIN pub
\* the positions of the command goroutine inside switchSymbol with
\* appState.mu held: its body, statement by statement where the
\* specification follows them, and the deferred Unlock()
CmdHolding == {"body", "book", "symbol", "chan", "go", "unlock"}
\* a writer of appState.mu is announced or inside
AppAnnounced == \E p \in Handlers : pub[p].cmd \in {"locking"} \cup CmdHolding
\* a writer of the book's mutex is announced or inside
BookAnnounced(b) ==
    \E s \in 1..Len(sync) :
        /\ SyncBook(s) = b
        /\ sync[s].pc \in {"loadWait", "applyWait", "loading", "applying", "updating"}
\* the queue of the change at hand is locked by updateQueue
QueueWriteHeld(b) == \E s \in 1..Len(sync) : SyncBook(s) = b /\ sync[s].pc = "updating"
QueueReadHeld(b) == \E p \in Handlers : pub[p].pc = "queueLocked" /\ pub[p].book = b
\* the levels getL3Snapshot(100) visits, bids then asks
VisitedLevels(b) ==
    min(PublishedLevels, Cardinality(DOMAIN books[b].bids)) +
    min(PublishedLevels, Cardinality(DOMAIN books[b].asks))
\* the switch commands read and not yet through switchSymbol
InFlight == Cardinality({p \in Handlers : pub[p].cmd \in {"switch", "locking", "body", "book"}})

\* Unlock(): the blocked readers are admitted
AdmitApp ==
    /\ appMu' = [writer |-> FALSE,
                 readers |-> Cardinality({p \in Handlers : pub[p].pc = "appWait"})]
AdmittedToBook(b) ==
    [p \in Handlers |->
        IF pub[p].pc = "bookWait" /\ pub[p].book = b
        THEN [pub[p] EXCEPT !.pc = "bookLocked", !.level = 0]
        ELSE pub[p]]
AdmitBook(b) ==
    /\ bookMu' = [bookMu EXCEPT ![b] =
                    [writer |-> FALSE,
                     readers |-> Cardinality({p \in Handlers : pub[p].pc = "bookWait" /\ pub[p].book = b})]]
    /\ pub' = AdmittedToBook(b)

\* wsHandler, on a tick: appState.mu.RLock()
TaskPubRLockApp(p) ==
    /\ pub[p].pc = "tick"
    /\ IF AppAnnounced
       THEN /\ pub' = [pub EXCEPT ![p].pc = "appWait"]
            /\ UNCHANGED appMu
       ELSE /\ pub' = [pub EXCEPT ![p].pc = "appLocked"]
            /\ appMu' = [appMu EXCEPT !.readers = @ + 1]
    /\ UNCHANGED <<books, app, chans, sync, hist, wrote, last, valid, pm, bookMu>>

\* appState.book.getL3Snapshot(100): ob.mu.RLock()
TaskPubRLockBook(p) ==
    /\ pub[p].pc = "appLocked"
    /\ IF BookAnnounced(app.book)
       THEN /\ pub' = [pub EXCEPT ![p].pc = "bookWait", ![p].book = app.book]
            /\ UNCHANGED bookMu
       ELSE /\ pub' = [pub EXCEPT ![p].pc = "bookLocked", ![p].book = app.book, ![p].level = 0]
            /\ bookMu' = [bookMu EXCEPT ![app.book].readers = @ + 1]
    /\ UNCHANGED <<books, app, chans, sync, hist, wrote, last, valid, pm, appMu>>

\* getL3Snapshot: queue.mu.RLock() of the next level
TaskPubQueueRLock(p) ==
    /\ pub[p].pc = "bookLocked"
    /\ pub[p].level < VisitedLevels(pub[p].book)
    /\ ~QueueWriteHeld(pub[p].book)
    /\ pub' = [pub EXCEPT ![p].pc = "queueLocked"]
    /\ UNCHANGED <<books, app, chans, sync, hist, wrote, last, valid, pm, appMu, bookMu>>

\* getL3Snapshot: the level is built, queue.mu.RUnlock()
TaskPubQueueRUnlock(p) ==
    /\ pub[p].pc = "queueLocked"
    /\ pub' = [pub EXCEPT ![p].pc = "bookLocked", ![p].level = @ + 1]
    /\ UNCHANGED <<books, app, chans, sync, hist, wrote, last, valid, pm, appMu, bookMu>>

\* getL3Snapshot returns: the deferred ob.mu.RUnlock(), then
\* appState.mu.RUnlock()
TaskPubReturn(p) ==
    /\ pub[p].pc = "bookLocked"
    /\ pub[p].level = VisitedLevels(pub[p].book)
    /\ \E snapshot \in getL3Snapshot(books[pub[p].book], PublishedLevels) :
         pub' = [pub EXCEPT ![p].pc = "write", ![p].snap = snapshot]
    /\ bookMu' = [bookMu EXCEPT ![pub[p].book].readers = @ - 1]
    /\ appMu' = [appMu EXCEPT !.readers = @ - 1]
    /\ UNCHANGED <<books, app, chans, sync, hist, wrote, last, valid, pm>>

\* conn.WriteJSON(message) of the ticker loop returns
TaskPubWrite(p) ==
    /\ pub[p].pc = "write"
    /\ pub' = [pub EXCEPT ![p].pc = "tick", ![p].book = 0, ![p].level = 0,
                          ![p].snap = NoL3Snapshot]
    /\ UNCHANGED <<books, app, chans, sync, hist, wrote, last, valid, pm, appMu, bookMu>>

\* the command goroutine: conn.ReadJSON returns a switch_symbol message and
\* switchSymbol is called
TaskCmdRead(p, msg) ==
    /\ pub[p].cmd = "read"
    /\ Len(books) + InFlight < MaxBooks
    /\ pub' = [pub EXCEPT ![p].cmd = "switch", ![p].msg = msg]
    /\ UNCHANGED <<books, app, chans, sync, hist, wrote, last, valid, pm, appMu, bookMu>>

\* switchSymbol: appState.mu.Lock() announces the writer
TaskCmdLock(p) ==
    /\ pub[p].cmd = "switch"
    /\ ~AppAnnounced
    /\ pub' = [pub EXCEPT ![p].cmd = "locking"]
    /\ UNCHANGED <<books, app, chans, sync, hist, wrote, last, valid, pm, appMu, bookMu>>

\* switchSymbol: appState.mu.Lock() returns when the read holders have left
TaskCmdEnter(p) ==
    /\ pub[p].cmd = "locking"
    /\ appMu.readers = 0
    /\ appMu' = [appMu EXCEPT !.writer = TRUE]
    /\ pub' = [pub EXCEPT ![p].cmd = "body"]
    /\ UNCHANGED <<books, app, chans, sync, hist, wrote, last, valid, pm, bookMu>>

\* switchSymbol: its body, under the lock
TaskCmdBody(p) ==
    /\ pub[p].cmd = "body"
    /\ switchSymbol(ToLower(pub[p].msg.Symbol))
    /\ pub' = [pub EXCEPT ![p].cmd = "unlock"]
    /\ UNCHANGED <<wrote, last, valid, pm, appMu>>

\* the handlers after appState.mu.Unlock() by the command goroutine of p
AdmittedToApp(p) ==
    [q \in Handlers |->
        LET h == IF pub[q].pc = "appWait" THEN [pub[q] EXCEPT !.pc = "appLocked"] ELSE pub[q]
        IN  IF q = p THEN [h EXCEPT !.cmd = "respond"] ELSE h]

\* a switchSymbol that returns with appState.mu still held
TaskCmdUnlockKeepsLock(p) ==
    /\ pub[p].cmd = "unlock"
    /\ pub' = [pub EXCEPT ![p].cmd = "respond"]
    /\ UNCHANGED <<books, app, chans, sync, hist, wrote, last, valid, pm, appMu, bookMu>>

\* switchSymbol returns: the deferred appState.mu.Unlock()
TaskCmdUnlock(p) ==
    /\ pub[p].cmd = "unlock"
    /\ AdmitApp
    /\ pub' = AdmittedToApp(p)
    /\ UNCHANGED <<books, app, chans, sync, hist, wrote, last, valid, pm, bookMu>>

\* conn.WriteJSON(switchMsg) of the command goroutine returns
TaskCmdRespond(p) ==
    /\ pub[p].cmd = "respond"
    /\ pub' = [pub EXCEPT ![p].cmd = "read", ![p].msg = NoMsg]
    /\ UNCHANGED <<books, app, chans, sync, hist, wrote, last, valid, pm, appMu, bookMu>>

\* loadSnapshot, applyDelta: ob.mu.Lock() announces the writer
TaskSyncLock(s) ==
    /\ sync[s].pc \in {"load", "apply"}
    /\ sync' = [sync EXCEPT ![s].pc = IF @ = "load" THEN "loadWait" ELSE "applyWait"]
    /\ UNCHANGED <<books, app, chans, hist, wrote, last, valid, pm, lockVars>>

\* loadSnapshot: ob.mu.Lock() returns when the read holders have left, and
\* the two fresh maps
TaskSyncLoadEnter(s) ==
    /\ sync[s].pc = "loadWait"
    /\ bookMu[SyncBook(s)].readers = 0
    /\ bookMu' = [bookMu EXCEPT ![SyncBook(s)].writer = TRUE]
    /\ books' = [books EXCEPT ![SyncBook(s)].bids = EmptyMap, ![SyncBook(s)].asks = EmptyMap]
    /\ sync' = [sync EXCEPT ![s].pc = "loading",
                            ![s].todoB = sync[s].resp.Bids, ![s].todoA = sync[s].resp.Asks]
    /\ UNCHANGED <<app, chans, hist, wrote, last, valid, pm, appMu, pub>>

\* loadSnapshot: ob.lastID and the deferred ob.mu.Unlock()
TaskSyncLoadEnd(s) ==
    /\ sync[s].pc = "loading"
    /\ Len(sync[s].todoB) + Len(sync[s].todoA) = 0
    /\ books' = [books EXCEPT ![SyncBook(s)].lastID = sync[s].resp.LastUpdateID]
    /\ AdmitBook(SyncBook(s))
    /\ sync' = [sync EXCEPT ![s].pc = "live", ![s].resp = NoSnapshot]
    /\ UNCHANGED <<app, chans, hist, wrote, last, valid, pm, appMu>>

\* applyDelta: ob.mu.Lock() returns when the read holders have left
TaskSyncApplyEnter(s) ==
    /\ sync[s].pc = "applyWait"
    /\ bookMu[SyncBook(s)].readers = 0
    /\ bookMu' = [bookMu EXCEPT ![SyncBook(s)].writer = TRUE]
    /\ sync' = [sync EXCEPT ![s].pc = "applying",
                            ![s].todoB = sync[s].upd.B, ![s].todoA = sync[s].upd.A]
    /\ UNCHANGED <<books, app, chans, hist, wrote, last, valid, pm, appMu, pub>>

\* the change at hand and the side map it is for
ChangeAtHand(s) == IF Len(sync[s].todoB) > 0 THEN Head(sync[s].todoB) ELSE Head(sync[s].todoA)
SideAtHand(s) ==
    IF Len(sync[s].todoB) > 0 THEN books[SyncBook(s)].bids ELSE books[SyncBook(s)].asks
\* the change reaches queue.mu.Lock() in updateQueue: it parses, is not zero
\* and names a level that exists
TakesQueueLock(s) ==
    /\ Len(ChangeAtHand(s)) >= 2
    /\ ~NewFromString(ChangeAtHand(s)[2]).err
    /\ NewFromString(ChangeAtHand(s)[2]).val # 0
    /\ ChangeAtHand(s)[1] \in DOMAIN SideAtHand(s)
\* the book after the change at hand
AfterChangeAtHand(s) ==
    IF Len(sync[s].todoB) > 0
    THEN [books EXCEPT ![SyncBook(s)].bids = applyChange(@, Head(sync[s].todoB))]
    ELSE [books EXCEPT ![SyncBook(s)].asks = applyChange(@, Head(sync[s].todoA))]
RestAtHand(s) ==
    IF Len(sync[s].todoB) > 0
    THEN [sync EXCEPT ![s].todoB = Tail(@), ![s].pc = "applying"]
    ELSE [sync EXCEPT ![s].todoA = Tail(@), ![s].pc = "applying"]

\* applyDelta: one iteration that takes no queue lock
TaskSyncApplyStep(s) ==
    /\ sync[s].pc = "applying"
    /\ Len(sync[s].todoB) + Len(sync[s].todoA) > 0
    /\ ~TakesQueueLock(s)
    /\ books' = AfterChangeAtHand(s)
    /\ sync' = RestAtHand(s)
    /\ UNCHANGED <<app, chans, hist, wrote, last, valid, pm, lockVars>>

\* updateQueue: queue.mu.Lock()
TaskSyncQueueLock(s) ==
    /\ sync[s].pc = "applying"
    /\ Len(sync[s].todoB) + Len(sync[s].todoA) > 0
    /\ TakesQueueLock(s)
    /\ ~QueueReadHeld(SyncBook(s))
    /\ sync' = [sync EXCEPT ![s].pc = "updating"]
    /\ UNCHANGED <<books, app, chans, hist, wrote, last, valid, pm, lockVars>>

\* updateQueue: the queue is changed, the deferred queue.mu.Unlock()
TaskSyncQueueUnlock(s) ==
    /\ sync[s].pc = "updating"
    /\ books' = AfterChangeAtHand(s)
    /\ sync' = RestAtHand(s)
    /\ UNCHANGED <<app, chans, hist, wrote, last, valid, pm, lockVars>>

\* applyDelta: the deferred ob.mu.Unlock()
TaskSyncApplyEnd(s) ==
    /\ sync[s].pc = "applying"
    /\ Len(sync[s].todoB) + Len(sync[s].todoA) = 0
    /\ AdmitBook(SyncBook(s))
    /\ sync' = [sync EXCEPT ![s].pc = "live", ![s].upd = NoUpdate]
    /\ UNCHANGED <<books, app, chans, hist, wrote, last, valid, pm, appMu>>

\* the steps of a synchronizer inside loadSnapshot or applyDelta
SyncCallStep(s) ==
    \/ TaskSyncLock(s)
    \/ TaskSyncLoadEnter(s)
    \/ SyncLoadStep(s)
    \/ TaskSyncLoadEnd(s)
    \/ TaskSyncApplyEnter(s)
    \/ TaskSyncApplyStep(s)
    \/ TaskSyncQueueLock(s)
    \/ TaskSyncQueueUnlock(s)
    \/ TaskSyncApplyEnd(s)
\* the steps of a ticker loop between its tick and its write
PubCallStep(p) ==
    \/ TaskPubRLockBook(p)
    \/ TaskPubQueueRLock(p)
    \/ TaskPubQueueRUnlock(p)
    \/ TaskPubReturn(p)
\* the steps of switchSymbol after its Lock() was announced
CmdCallStep(p) ==
    \/ TaskCmdEnter(p)
    \/ TaskCmdBody(p)
    \/ TaskCmdUnlock(p)

NextTasks ==
    \/ \E s \in 1..Len(sync) : SyncLoopHead(s)
    \/ \E s \in 1..Len(sync) : SyncBackoff(s)
    \/ \E s \in 1..Len(sync) : SyncSnapshot(s)
    \/ \E s \in 1..Len(sync) : SyncLive(s, TaskOutcomes)
    \/ \E s \in 1..Len(sync) : SyncCallStep(s)
    \/ \E p \in Handlers : TaskPubRLockApp(p)
    \/ \E p \in Handlers : PubCallStep(p)
    \/ \E p \in Handlers : TaskPubWrite(p)
    \/ \E p \in Handlers : \E msg \in SwitchCommands : TaskCmdRead(p, msg)
    \/ \E p \in Handlers : TaskCmdLock(p)
    \/ \E p \in Handlers : CmdCallStep(p)
    \/ \E p \in Handlers : TaskCmdRespond(p)

\* the scheduler runs every goroutine that can run; sync.Mutex and
\* sync.RWMutex let no caller of Lock() wait for ever behind other writers
TaskFairness ==
    /\ \A s \in 1..MaxBooks : WF_vars(s \in 1..Len(sync) /\ SyncCallStep(s))
    /\ \A p \in 1..NumSubscribers : WF_vars(PubCallStep(p))
    /\ \A p \in 1..NumSubscribers : WF_vars(CmdCallStep(p))
    /\ \A p \in 1..NumSubscribers : SF_vars(TaskCmdLock(p))

SpecTasks == InitTasks /\ [][NextTasks]_vars /\ TaskFairness

\* the locks a task holds, in the order it took them, then the lock it is
\* about to get
PubLocks(p) ==
    CASE pub[p].pc = "appWait" -> <<"app">>
      [] pub[p].pc = "appLocked" -> <<"app">>
      [] pub[p].pc = "bookWait" -> <<"app", "book">>
      [] pub[p].pc = "bookLocked" -> <<"app", "book">>
      [] pub[p].pc = "queueLocked" -> <<"app", "book", "queue">>
      [] OTHER -> <<>>
CmdLocks(p) == IF pub[p].cmd \in {"locking"} \cup CmdHolding THEN <<"app">> ELSE <<>>
SyncLocks(s) ==
    CASE sync[s].pc \in {"loadWait", "applyWait", "loading", "applying"} -> <<"book">>
      [] sync[s].pc = "updating" -> <<"book", "queue">>
      [] OTHER -> <<>>
LockRank(l) == CASE l = "app" -> 1 [] l = "book" -> 2 [] l = "queue" -> 3
InOrder(locks) == \A i, j \in 1..Len(locks) : i < j => LockRank(locks[i]) < LockRank(locks[j])
\* the mutexes are as their holders say
MutexesMatch ==
    /\ appMu.readers =
          Cardinality({p \in Handlers : pub[p].pc \in {"appLocked", "bookWait", "bookLocked", "queueLocked"}})
    /\ appMu.writer <=> \E p \in Handlers : pub[p].cmd \in CmdHolding
    /\ Cardinality({p \in Handlers : pub[p].cmd \in {"locking"} \cup CmdHolding}) <= 1
    /\ ~(appMu.writer /\ appMu.readers > 0)
    /\ \A b \in 1..Len(books) :
          /\ bookMu[b].readers =
                Cardinality({p \in Handlers : pub[p].pc \in {"bookLocked", "queueLocked"} /\ pub[p].book = b})
          /\ bookMu[b].writer <=>
                \E s \in 1..Len(sync) :
                    SyncBook(s) = b /\ sync[s].pc \in {"loading", "applying", "updating"}
          /\ ~(bookMu[b].writer /\ bookMu[b].readers > 0)
          /\ ~(QueueWriteHeld(b) /\ QueueReadHeld(b))
LockOrdered ==
    /\ MutexesMatch
    /\ \A p \in Handlers : InOrder(PubLocks(p)) /\ InOrder(CmdLocks(p))
    /\ \A s \in 1..Len(sync) : InOrder(SyncLocks(s))

InGetL3Snapshot(p) == pub[p].pc \in {"appLocked", "bookWait", "bookLocked", "queueLocked"}
InSwitchSymbol(p) == pub[p].cmd \in {"switch", "locking"} \cup CmdHolding
InBookCall(s) ==
    s \in 1..Len(sync) /\
    sync[s].pc \in {"load", "loadWait", "loading", "apply", "applyWait", "applying", "updating"}
\* the task is out of its call and holds no lock
PubDone(p) == pub[p].pc = "write" /\ PubLocks(p) = <<>>
CmdDone(p) == pub[p].cmd = "respond" /\ CmdLocks(p) = <<>> /\ ~appMu.writer
SyncDone(s) ==
    s \in 1..Len(sync) /\
    sync[s].pc = "live" /\ SyncLocks(s) = <<>> /\ ~bookMu[SyncBook(s)].writer

PubWriting(p) == pub[p].pc = "write"
\* the command goroutine of connection p is inside conn.WriteJSON(switchMsg)
CmdWriting(p) == pub[p].cmd = "respond"

\* C34: at most one task writes to a subscriber connection at any time: the
\* l3_update write of the ticker loop and the symbol_switched or error write
\* of the command goroutine on the same connection never overlap.
C34_OneWriterPerConnection ==
    \A p \in Handlers : ~(PubWriting(p) /\ CmdWriting(p))

\* ------------------------------------ switchSymbol, statement by statement
\* switchSymbol: the comparison and, when the symbol is new, the send on the
\* cancel channel (select with default)
TaskSwitchCancel(p) ==
    /\ pub[p].cmd = "body"
    /\ IF app.currentSymbol = ToLower(pub[p].msg.Symbol)
       THEN /\ pub' = [pub EXCEPT ![p].cmd = "unlock"]
            /\ UNCHANGED <<chans, hist>>
       ELSE /\ chans' = [chans EXCEPT ![app.binanceCancel] = 1]
            /\ hist' = [hist EXCEPT ![app.binanceCancel].raised = TRUE]
            /\ pub' = [pub EXCEPT ![p].cmd = "book"]
    /\ UNCHANGED <<books, app, sync, wrote, last, valid, pm, appMu, bookMu>>

\* appState.book = NewL3OrderBook(newSymbol)
TaskSwitchBook(p) ==
    /\ pub[p].cmd = "book"
    /\ Len(books) < MaxBooks
    /\ books' = Append(books, NewL3OrderBook(ToLower(pub[p].msg.Symbol)))
    /\ bookMu' = Append(bookMu, Unlocked)
    /\ app' = [app EXCEPT !.book = Len(books) + 1]
    /\ pub' = [pub EXCEPT ![p].cmd = "symbol"]
    /\ UNCHANGED <<chans, sync, hist, wrote, last, valid, pm, appMu>>

\* a switchSymbol that leaves appState.currentSymbol as it was
TaskSwitchSymbolSkipped(p) ==
    /\ pub[p].cmd = "symbol"
    /\ pub' = [pub EXCEPT ![p].cmd = "chan"]
    /\ UNCHANGED <<books, app, chans, sync, hist, wrote, last, valid, pm, appMu, bookMu>>

\* appState.currentSymbol = newSymbol
TaskSwitchSymbol(p) ==
    /\ pub[p].cmd = "symbol"
    /\ app' = [app EXCEPT !.currentSymbol = ToLower(pub[p].msg.Symbol)]
    /\ pub' = [pub EXCEPT ![p].cmd = "chan"]
    /\ UNCHANGED <<books, chans, sync, hist, wrote, last, valid, pm, appMu, bookMu>>

\* appState.binanceCancel = make(chan bool, 1)
TaskSwitchChan(p) ==
    /\ pub[p].cmd = "chan"
    /\ chans' = Append(chans, 0)
    /\ hist' = Append(hist, NewHist)
    /\ app' = [app EXCEPT !.binanceCancel = Len(chans) + 1]
    /\ pub' = [pub EXCEPT ![p].cmd = "go"]
    /\ UNCHANGED <<books, sync, wrote, last, valid, pm, appMu, bookMu>>

\* go runBinanceSync(newSymbol, appState.book, appState.binanceCancel)
TaskSwitchGo(p) ==
    /\ pub[p].cmd = "go"
    /\ sync' = Append(sync, NewSync(ToLower(pub[p].msg.Symbol), app.book, app.binanceCancel))
    /\ pub' = [pub EXCEPT ![p].cmd = "unlock"]
    /\ UNCHANGED <<books, app, chans, hist, wrote, last, valid, pm, appMu, bookMu>>

\* the steps of switchSymbol after its Lock() was announced
CmdSwitchStep(p) ==
    \/ TaskCmdEnter(p)
    \/ TaskSwitchCancel(p)
    \/ TaskSwitchBook(p)
    \/ TaskSwitchSymbol(p)
    \/ TaskSwitchChan(p)
    \/ TaskSwitchGo(p)
    \/ TaskCmdUnlock(p)

NextSwitch ==
    \/ \E s \in 1..Len(sync) : SyncLoopHead(s)
    \/ \E s \in 1..Len(sync) : SyncBackoff(s)
    \/ \E s \in 1..Len(sync) : SyncSnapshot(s)
    \/ \E s \in 1..Len(sync) : SyncLive(s, TaskOutcomes)
    \/ \E s \in 1..Len(sync) : SyncCallStep(s)
    \/ \E p \in Handlers : TaskPubRLockApp(p)
    \/ \E p \in Handlers : PubCallStep(p)
    \/ \E p \in Handlers : TaskPubWrite(p)
    \/ \E p \in Handlers : \E msg \in SwitchCommands : TaskCmdRead(p, msg)
    \/ \E p \in Handlers : TaskCmdLock(p)
    \/ \E p \in Handlers : CmdSwitchStep(p)
    \/ \E p \in Handlers : TaskCmdRespond(p)

SpecSwitch == InitTasks /\ [][NextSwitch]_vars

\* the current Book is of the current symbol, and exactly one synchronizer
\* was started for it, with the stored cancel channel and that symbol
ControllerConsistent ==
    /\ books[app.book].symbol = app.currentSymbol
    /\ \E s \in 1..Len(sync) :
          /\ sync[s].book = app.book
          /\ sync[s].cancel = app.binanceCancel
          /\ sync[s].symbol = app.currentSymbol
          /\ \A r \in 1..Len(sync) : sync[r].book = app.book => r = s
\* a publisher inside getL3Snapshot reads the current Book
ReadsCurrentBook ==
    \A p \in Handlers :
        pub[p].pc \in {"bookWait", "bookLocked", "queueLocked"} => pub[p].book = app.book
\* a snapshot that is returned carries the symbol current at that moment
CarriesCurrentSymbol ==
    \A p \in Handlers :
        (pub[p].pc # "write" /\ pub'[p].pc = "write") =>
            /\ pub'[p].snap.Symbol = app.currentSymbol
            /\ app' = app

\* C35: whenever appState.mu is not write-held, the current Book has the
\* symbol currentSymbol and the stored cancel channel is the one handed to
\* the synchronizer started for that Book; every published snapshot carries
\* the symbol that was current when it was taken, and every publisher reads
\* the current Book.
C35_ControllerConsistent ==
    /\ [](~appMu.writer => ControllerConsistent)
    /\ []ReadsCurrentBook
    /\ [][CarriesCurrentSymbol]_vars
\* after a switch the lock is free and a publisher is writing a snapshot of
\* the new symbol
C35_Witness ==
    /\ ~appMu.writer
    /\ app.book = 2 /\ app.currentSymbol = btcusdt
    /\ \E p \in Handlers : pub[p].pc = "write" /\ pub[p].snap.Symbol = btcusdt
\* inside switchSymbol the new Book is installed and currentSymbol is still
\* the old one
C35_WitnessInside ==
    /\ appMu.writer
    /\ books[app.book].symbol # app.currentSymbol

\* ------------------------------------------------------ the precision cache
\* step sizes on the wire
S_0p1 == <<"0", ".", "1">>
S_0p01 == <<"0", ".", "0", "1">>
S_empty == <<>>

DefaultPrecision == 2
MaxPrecision == 10
\* the age, in seconds, from which a cached entry is fetched again
CacheSeconds == 3600
\* hours of wall clock the model follows
MaxHours == 1
\* the instants at which the clock is read: around every full hour
Instants ==
    {t \in {h * CacheSeconds + d : h \in 0..MaxHours, d \in {0 - 1, 0, 1}} : t >= 0}

\* the least k from which 10^k * num >= den, at most MaxPrecision
RECURSIVE LeastPower(_, _, _)
LeastPower(num, den, k) ==
    IF k >= MaxPrecision \/ Pow10(k) * num >= den THEN k ELSE LeastPower(num, den, k + 1)

\* calculatePrecision: strconv.ParseFloat, then the ceiling of -log10,
\* kept within 0..10.  For a plain decimal numeral num / 10^fracLen the
\* ceiling is the least k with 10^k * num >= 10^fracLen; for the step sizes
\* read here the float64 computation gives that k.
calculatePrecision(stepSize) ==
    LET signed == Len(stepSize) > 0 /\ stepSize[1] \in {"-", "+"}
        body == IF signed THEN Tail(stepSize) ELSE stepSize
        dots == {i \in 1..Len(body) : body[i] = "."}
        digits == SelectSeq(body, LAMBDA c : c \in DigitSet)
        wellFormed == /\ \A i \in 1..Len(body) : body[i] \in DigitSet \cup {"."}
                      /\ Cardinality(dots) <= 1
                      /\ Len(digits) >= 1
        fracLen == IF dots = {} THEN 0 ELSE Len(body) - (CHOOSE i \in dots : TRUE)
        num == DigitsValue(digits)
        den == Pow10(fracLen)
    IN  IF stepSize = S_empty THEN DefaultPrecision
        ELSE IF ~wellFormed \/ num = 0 \/ (signed /\ stepSize[1] = "-") THEN DefaultPrecision
        ELSE IF num >= den THEN 0
        ELSE LeastPower(num, den, 0)

\* the PrecisionInfo FetchPrecisionInfo starts from, and GetPrecisionInfo
\* returns after a failure
DefaultInfo(symbol, at) ==
    [Symbol |-> symbol, PricePrecision |-> DefaultPrecision, QtyPrecision |-> DefaultPrecision,
     TickSize |-> S_0p01, StepSize |-> S_0p01, LastUpdated |-> at]
NoInfo == DefaultInfo(<<>>, 0)

\* the loop over symbolInfo.Filters
RECURSIVE ParseFilters(_, _)
ParseFilters(info, filters) ==
    IF Len(filters) = 0 THEN info
    ELSE LET f == Head(filters)
             next == IF f.FilterType = "PRICE_FILTER" /\ f.TickSize # S_empty
                     THEN [info EXCEPT !.TickSize = f.TickSize,
                                       !.PricePrecision = calculatePrecision(f.TickSize)]
                     ELSE IF f.FilterType = "LOT_SIZE" /\ f.StepSize # S_empty
                     THEN [info EXCEPT !.StepSize = f.StepSize,
                                       !.QtyPrecision = calculatePrecision(f.StepSize)]
                     ELSE info
         IN  ParseFilters(next, Tail(filters))

\* the responses of GET /fapi/v1/exchangeInfo
PriceFilter(tick) == [FilterType |-> "PRICE_FILTER", TickSize |-> tick, StepSize |-> S_empty]
LotSize(step) == [FilterType |-> "LOT_SIZE", TickSize |-> S_empty, StepSize |-> step]
EthTenths == [Symbol |-> ETHUSDT, Filters |-> <<PriceFilter(S_0p1), LotSize(S_0p01)>>]
EthOdd == [Symbol |-> ETHUSDT, Filters |-> <<PriceFilter(S_bad), LotSize(S_1), PriceFilter(S_empty)>>]
BtcHalves == [Symbol |-> BTCUSDT, Filters |-> <<LotSize(S_0p5)>>]
ExchangeOutcomes ==
    {[err |-> TRUE, status |-> 0, decodeErr |-> FALSE, symbols |-> <<>>],
     [err |-> FALSE, status |-> 500, decodeErr |-> FALSE, symbols |-> <<EthTenths>>],
     [err |-> FALSE, status |-> 200, decodeErr |-> TRUE, symbols |-> <<>>],
     [err |-> FALSE, status |-> 200, decodeErr |-> FALSE, symbols |-> <<BtcHalves>>],
     [err |-> FALSE, status |-> 200, decodeErr |-> FALSE, symbols |-> <<EthTenths>>],
     [err |-> FALSE, status |-> 200, decodeErr |-> FALSE, symbols |-> <<BtcHalves, EthOdd, EthTenths>>]}
PrecisionSymbols == {ethusdt, btcusdt}

\* a test that still takes an entry that is exactly an hour old
CacheHitInclusive(m, symbol) ==
    /\ symbol \in DOMAIN m.precisions
    /\ m.now - m.precisions[symbol].LastUpdated <= CacheSeconds

\* FetchPrecisionInfo: the test under RLock
CacheHit(m, symbol) ==
    /\ symbol \in DOMAIN m.precisions
    /\ m.now - m.precisions[symbol].LastUpdated < CacheSeconds

\* FetchPrecisionInfo(symbol) on the manager m; o is what the upstream
\* request gives and at the time read when the response is there.  The
\* result: the manager, the values returned and the requests made.
FetchPrecisionInfo(m, symbol, o, at) ==
    LET found == {i \in 1..Len(o.symbols) : o.symbols[i].Symbol = ToUpper(symbol)}
        first == CHOOSE i \in found : \A j \in found : i <= j
        info == ParseFilters(DefaultInfo(symbol, at), o.symbols[first].Filters)
        later == [m EXCEPT !.now = at]
    IN  IF CacheHit(m, symbol)
        THEN [pm |-> m, ret |-> m.precisions[symbol], err |-> FALSE, requests |-> 0]
        ELSE IF o.err \/ o.status # 200 \/ o.decodeErr \/ found = {}
        THEN [pm |-> later, ret |-> NoInfo, err |-> TRUE, requests |-> 1]
        ELSE [pm |-> [later EXCEPT !.precisions = MapPut(@, symbol, info)],
              ret |-> info, err |-> FALSE, requests |-> 1]

\* GetPrecisionInfo(symbol): the defaults when the fetch failed
GetPrecisionInfo(m, symbol, o, at) ==
    LET r == FetchPrecisionInfo(m, symbol, o, at)
    IN  IF r.err THEN [r EXCEPT !.ret = DefaultInfo(symbol, at), !.err = FALSE] ELSE r

InitPrecision == InitEngine

\* the wall clock moves on
PrecisionTick(t) ==
    /\ t > pm.now
    /\ pm' = [pm EXCEPT !.now = t]
    /\ UNCHANGED <<books, last, valid, sysVars>>

\* a call of FetchPrecisionInfo or of GetPrecisionInfo; last keeps the
\* call, the manager it met and what it returned
PrecisionCall(op, symbol, o, at) ==
    /\ at >= pm.now
    /\ LET r == IF op = "FetchPrecisionInfo"
                THEN FetchPrecisionInfo(pm, symbol, o, at)
                ELSE GetPrecisionInfo(pm, symbol, o, at)
       IN  /\ pm' = r.pm
           /\ last' = [op |-> op, symbol |-> symbol, outcome |-> o, at |-> at, pre |-> pm,
                       ret |-> r.ret, err |-> r.err, requests |-> r.requests]
    /\ UNCHANGED <<books, valid, sysVars>>

\* ClearCache: every entry goes
ClearCache ==
    /\ pm' = [pm EXCEPT !.precisions = EmptyMap]
    /\ last' = [op |-> "ClearCache"]
    /\ UNCHANGED <<books, valid, sysVars>>

NextPrecision ==
    \/ \E t \in Instants : PrecisionTick(t)
    \/ ClearCache
    \/ \E symbol \in PrecisionSymbols, o \in ExchangeOutcomes, at \in Instants :
           PrecisionCall("FetchPrecisionInfo", symbol, o, at)
    \/ \E symbol \in PrecisionSymbols, o \in ExchangeOutcomes, at \in Instants :
           PrecisionCall("GetPrecisionInfo", symbol, o, at)

SpecPrecision == InitPrecision /\ [][NextPrecision]_vars

\* the last call was a call on the precision manager
PrecisionCalled == last.op \in {"FetchPrecisionInfo", "GetPrecisionInfo"}
\* the entry the call met, if any, was less than an hour old
MetFresh ==
    /\ last.symbol \in DOMAIN last.pre.precisions
    /\ last.pre.now - last.pre.precisions[last.symbol].LastUpdated < CacheSeconds
\* the upstream request of the call failed: transport error, status other
\* than 200, undecodable body, or symbol not listed
FetchFailed ==
    \/ last.outcome.err
    \/ last.outcome.status # 200
    \/ last.outcome.decodeErr
    \/ \A i \in 1..Len(last.outcome.symbols) : last.outcome.symbols[i].Symbol # ToUpper(last.symbol)

\* C36: FetchPrecisionInfo returns the cached entry without an upstream
\* request when the entry is less than 3600 seconds old, makes an upstream
\* request only when the entry is missing or at least 3600 seconds old, and
\* a failed fetch leaves the cache contents unchanged.
C36_HourlyRefresh ==
    PrecisionCalled =>
        /\ MetFresh =>
              /\ last.requests = 0
              /\ last.ret = last.pre.precisions[last.symbol]
              /\ pm.precisions = last.pre.precisions
        /\ ~MetFresh => last.requests = 1
        /\ (~MetFresh /\ FetchFailed) => pm.precisions = last.pre.precisions
        /\ (~MetFresh /\ ~FetchFailed) =>
              /\ last.symbol \in DOMAIN pm.precisions
              /\ pm.precisions[last.symbol] = last.ret
              /\ last.ret.LastUpdated = last.at
              /\ \A y \in DOMAIN last.pre.precisions \ {last.symbol} :
                    y \in DOMAIN pm.precisions /\ pm.precisions[y] = last.pre.precisions[y]
\* an entry exactly 3600 seconds old is fetched again, and the fetch fails
C36_Witness ==
    /\ PrecisionCalled /\ last.op = "FetchPrecisionInfo"
    /\ last.symbol \in DOMAIN last.pre.precisions
    /\ last.pre.now - last.pre.precisions[last.symbol].LastUpdated = CacheSeconds
    /\ last.requests = 1 /\ last.err
    /\ pm.precisions = last.pre.precisions
\* an entry 3599 seconds old is returned without a request
C36_WitnessCached ==
    /\ PrecisionCalled /\ MetFresh
    /\ last.pre.now - last.pre.precisions[last.symbol].LastUpdated = CacheSeconds - 1
    /\ last.requests = 0
\* an entry more than an hour old is replaced
C36_WitnessRefreshed ==
    /\ PrecisionCalled /\ ~MetFresh /\ ~FetchFailed
    /\ last.symbol \in DOMAIN last.pre.precisions
    /\ pm.precisions[last.symbol] # last.pre.precisions[last.symbol]
====
